---- MODULE Spec2Model ----
(***************************************************************************)
(* npmlens-mcp: the resilient HTTP helper (src/http.ts), the response      *)
(* cache (src/cache.ts, backed by lru-cache), the comparison engine        *)
(* (comparePackages in npm.ts) and the caching tool handlers (tools.ts).   *)
(*                                                                         *)
(* Each subsystem has its own specification over the shared variables:     *)
(*   SpecHttp     one adapter call: httpGet, then the body read            *)
(*   SpecCache    cacheSet / cacheGet against the LRU/TTL store            *)
(*   SpecCompare  one comparePackages call with its per-package tasks      *)
(*   SpecTools    concurrent tool invocations over the shared cache        *)
(*   SpecHandlers the handlers and the package resource, call by call      *)
(*   SpecAdapters one call of a registry / downloads / GitHub adapter      *)
(*   SpecKey      calls of the cache-key function                          *)
(***************************************************************************)
EXTENDS Integers, Sequences, FiniteSets, TLC

VARIABLES
  \* ---- httpGet and the adapter that called it (src/http.ts)
  retriesOpt,   \* opts.retries as passed by the caller (Undefined when omitted)
  hpc,          \* position of httpGet: "loop", "fetching", "sleeping", "returned", "thrown"
  attempt,      \* the loop variable `attempt`
  fetchLog,     \* one record per fetch() issued, in order
  timers,       \* attempts whose setTimeout is armed: neither cleared nor fired
  lastErr,      \* the variable `lastErr`
  hret,         \* what httpGet settled with
  sleepLog,     \* the arguments of the sleep() calls, in order
  apc,          \* position of the adapter around httpGet
  \* ---- the response cache (src/cache.ts)
  envTtl,       \* process.env.CACHE_TTL_MS (Undefined when unset)
  envMax,       \* process.env.CACHE_MAX (Undefined when unset)
  cache,        \* the LRUCache: its entries, least recently used first
  now,          \* the clock the cache reads, in ms
  ticks,        \* how often the clock has advanced
  opCount,      \* history: number of cacheSet / cacheGet calls so far
  lastOp,       \* history: the latest cache call and what it returned
  prevOp,       \* history: the cacheSet of its key made directly before the last cacheGet
  setAt,        \* history: per key, the latest cacheSet call
  lastUse,      \* history: per key, opCount at its latest cacheSet or cacheGet hit
  \* ---- one comparePackages call (npm.ts)
  packages,     \* the argument: the package names, in the caller's order
  cpc,          \* position of the call: "called", "running", "resolved", "thrown"
  task,         \* per input index, the async callback of packages.map
  doneOrder,    \* history: the indices in the order their callbacks settled
  results,      \* the array the call resolved with
  \* ---- tool invocations in flight (tools.ts)
  tool,         \* the tool this run's invocations call
  inv,          \* per invocation: its call, key, position, adapters invoked, result
  \* ---- one adapter call (npm.ts, downloads.ts, github.ts)
  adCall,       \* the adapter called and its arguments
  adPc,         \* position: "called", "awaiting", "readingBody", "returned", "threw"
  adReqs,       \* the URLs handed to httpGet so far, in order
  adResp,       \* the response httpGet resolved with, and the body read from it
  adOut,        \* the value returned, or the value thrown
  \* ---- calls of key() (src/cache.ts)
  keyArgs,      \* the two part lists this run calls key() with
  keyOut        \* the strings key() returned, in call order

httpVars == <<retriesOpt, hpc, attempt, fetchLog, timers, lastErr, hret, sleepLog, apc>>
cacheVars == <<envTtl, envMax, cache, now, ticks, opCount, lastOp, prevOp, setAt, lastUse>>
cmpVars == <<packages, cpc, task, doneOrder, results>>
toolVars == <<tool, inv>>
adapterVars == <<adCall, adPc, adReqs, adResp, adOut>>
keyVars == <<keyArgs, keyOut>>

vars == <<httpVars, cacheVars, cmpVars, toolVars, adapterVars, keyVars>>

\* What each subsystem's steps leave alone.
nonHttpVars == <<cacheVars, cmpVars, toolVars, adapterVars, keyVars>>
nonCacheVars == <<httpVars, cmpVars, toolVars, adapterVars, keyVars>>
nonCmpVars == <<httpVars, cacheVars, toolVars, adapterVars, keyVars>>
nonAdapterVars == <<httpVars, cacheVars, cmpVars, toolVars, keyVars>>
nonKeyVars == <<httpVars, cacheVars, cmpVars, toolVars, adapterVars>>

(***************************************************************************)
(* JavaScript values that can be thrown or rejected with.                  *)
(***************************************************************************)
Undefined == [t |-> "undefined", s |-> "", n |-> 0]
JsError(msg) == [t |-> "Error", s |-> msg, n |-> 0]
JsString(str) == [t |-> "string", s |-> str, n |-> 0]
JsNumber(num) == [t |-> "number", s |-> "", n |-> num]
JsObject == [t |-> "object", s |-> "", n |-> 0]
JsBoolean(b) == [t |-> "boolean", s |-> "", n |-> IF b THEN 1 ELSE 0]
JsNull == [t |-> "null", s |-> "", n |-> 0]
\* A plain object, carried with its JSON text.
JsonObject(text) == [t |-> "object", s |-> text, n |-> 0]

InstanceOfError(v) == v.t = "Error"

\* String(v) for a value that is not an Error instance.
String(v) ==
  CASE v.t = "string" -> v.s
    [] v.t = "number" -> ToString(v.n)
    [] v.t = "undefined" -> "undefined"
    [] v.t = "null" -> "null"
    [] v.t = "object" -> "[object Object]"
    [] OTHER -> "Error: " \o v.s

\* The rejection fetch() gives when its signal is aborted.
AbortError == JsError("This operation was aborted")

\* What a fetch() can reject with on a network-level failure.
NetworkFailures == {JsError("ECONNRESET"), JsError("ENOTFOUND"), JsString("boom"), JsNumber(7)}

\* HTTP statuses a completed exchange can carry.
Statuses == {200, 404, 500}

ResponseOk(status) == status >= 200 /\ status <= 299

(***************************************************************************)
(* The response cache: new LRUCache({ max: maxSize, ttl: defaultTtlMs }).  *)
(* The store is lru-cache's: entries in recency order, a per-entry start   *)
(* time and ttl, lazy expiry on get, eviction of the head on overflow.     *)
(***************************************************************************)
\* A cached payload: an object, identified by the call that produced it.
Payload(label, id) == [t |-> "object", s |-> label, n |-> id]

\* const defaultTtlMs = Number(process.env.CACHE_TTL_MS ?? "60000")
DefaultTtlMs(env) == IF env = Undefined THEN 60000 ELSE env.n

\* const maxSize = Number(process.env.CACHE_MAX ?? "500")
MaxSize(env) == IF env = Undefined THEN 500 ELSE env.n

NoOp == [op |-> "none", key |-> "", val |-> Undefined, ttl |-> Undefined,
         ret |-> Undefined, before |-> {}]
NoSet == [at |-> 0, ttl |-> Undefined, val |-> Undefined]

KeysOf(store) == {store[i].key : i \in 1 .. Len(store)}

IndexOfKey(store, k) == CHOOSE i \in 1 .. Len(store) : store[i].key = k

RemoveAt(store, i) == SubSeq(store, 1, i - 1) \o SubSeq(store, i + 1, Len(store))

\* lru-cache's isStale: !!ttl && !!start && now - start > ttl
IsStale(e, t) == e.ttl # 0 /\ e.start # 0 /\ t - e.start > e.ttl

\* Mutant: expired entries are still served.
LruGetValueIgnoringTtl(store, k, t) ==
  IF k \notin KeysOf(store) THEN Undefined ELSE store[IndexOfKey(store, k)].val

\* cache.get(key): what it returns.
LruGetValue(store, k, t) ==
  IF k \notin KeysOf(store) THEN Undefined
  ELSE LET e == store[IndexOfKey(store, k)]
       IN IF IsStale(e, t) THEN Undefined ELSE e.val

\* Mutant: a hit does not refresh the entry's recency (first in, first out).
LruGetStoreNoTouch(store, k, t) ==
  IF k \notin KeysOf(store) THEN store
  ELSE LET i == IndexOfKey(store, k)
       IN IF IsStale(store[i], t) THEN RemoveAt(store, i) ELSE store

\* cache.get(key): the store afterwards. A stale entry is deleted, a live one
\* becomes the most recently used.
LruGetStore(store, k, t) ==
  IF k \notin KeysOf(store) THEN store
  ELSE LET i == IndexOfKey(store, k)
       IN IF IsStale(store[i], t) THEN RemoveAt(store, i)
          ELSE Append(RemoveAt(store, i), store[i])

\* The ttl of a set: { ttl = this.ttl } = setOptions.
EffectiveTtl(ttlArg, dflt) == IF ttlArg = Undefined THEN dflt ELSE ttlArg.n

NewEntry(k, v, ttl, t) == [key |-> k, val |-> v, start |-> IF ttl # 0 THEN t ELSE 0, ttl |-> ttl]

\* Mutant: a set of a key already held keeps the value it held.
LruSetStoreKeepingOld(store, k, v, ttlArg, t, max, dflt) ==
  LET e == NewEntry(k, v, EffectiveTtl(ttlArg, dflt), t)
  IN IF k \in KeysOf(store)
       THEN Append(RemoveAt(store, IndexOfKey(store, k)), [e EXCEPT !.val = store[IndexOfKey(store, k)].val])
     ELSE IF Len(store) >= max /\ Len(store) > 0 THEN Append(Tail(store), e)
     ELSE Append(store, e)

\* cache.set(key, val, { ttl }): the store afterwards.
LruSetStore(store, k, v, ttlArg, t, max, dflt) ==
  LET e == NewEntry(k, v, EffectiveTtl(ttlArg, dflt), t)
  IN IF k \in KeysOf(store) THEN Append(RemoveAt(store, IndexOfKey(store, k)), e)
     ELSE IF Len(store) >= max /\ Len(store) > 0 THEN Append(Tail(store), e)
     ELSE Append(store, e)

\* export function cacheGet(key): the cache and history variables after it.
CacheGetCall(k) ==
  /\ cache' = LruGetStore(cache, k, now)
  /\ opCount' = opCount + 1
  /\ prevOp' = IF lastOp.op = "set" /\ lastOp.key = k THEN lastOp ELSE NoOp
  /\ lastOp' = [NoOp EXCEPT !.op = "get", !.key = k, !.before = KeysOf(cache),
                            !.ret = LruGetValue(cache, k, now)]
  /\ lastUse' = IF LruGetValue(cache, k, now) # Undefined
                  THEN [lastUse EXCEPT ![k] = opCount + 1] ELSE lastUse
  /\ UNCHANGED <<envTtl, envMax, now, ticks, setAt>>

\* export function cacheSet(key, val, ttlMs): the cache and history after it.
CacheSetCall(k, v, ttlArg) ==
  /\ cache' = LruSetStore(cache, k, v, ttlArg, now, MaxSize(envMax), DefaultTtlMs(envTtl))
  /\ opCount' = opCount + 1
  /\ prevOp' = NoOp
  /\ lastOp' = [NoOp EXCEPT !.op = "set", !.key = k, !.val = v, !.ttl = ttlArg,
                            !.before = KeysOf(cache)]
  /\ setAt' = [setAt EXCEPT ![k] = [at |-> now, ttl |-> ttlArg, val |-> v]]
  /\ lastUse' = [lastUse EXCEPT ![k] = opCount + 1]
  /\ UNCHANGED <<envTtl, envMax, now, ticks>>


(***************************************************************************)
(* Cache keys (cache.ts: key) and the calls of the caching tools           *)
(* (tools.ts): the key parts, the ttl and the adapters of each handler.    *)
(***************************************************************************)
\* JSON.stringify(p) for a part that is not a string.
JsonStringify(p) ==
  CASE p.t = "number" -> ToString(p.n)
    [] p.t = "boolean" -> (IF p.n = 1 THEN "true" ELSE "false")
    [] p.t = "object" -> p.s
    [] p.t = "null" -> "null"
    [] p.t = "undefined" -> ""
    [] OTHER -> "\"" \o p.s \o "\""

RECURSIVE Join(_, _)
\* parts.join(sep)
Join(strs, sep) ==
  IF Len(strs) = 0 THEN ""
  ELSE IF Len(strs) = 1 THEN strs[1]
  ELSE strs[1] \o sep \o Join(Tail(strs), sep)

\* parts.map((p) => (typeof p === "string" ? p : JSON.stringify(p))).join("|")
Key(parts) ==
  Join([i \in 1 .. Len(parts) |-> IF parts[i].t = "string" THEN parts[i].s ELSE JsonStringify(parts[i])], "|")

\* x ?? d, and a destructuring default `x = d`.
OrElse(x, d) == IF x = Undefined THEN d ELSE x

\* The order Array.prototype.sort() gives the package names in use.
NameRank(str) == CASE str = "a" -> 1 [] str = "b" -> 2 [] OTHER -> 3

RECURSIVE SortNames(_)
\* packages.sort()
SortNames(names) ==
  IF Len(names) <= 1 THEN names
  ELSE LET m == CHOOSE i \in 1 .. Len(names) : \A j \in 1 .. Len(names) : NameRank(names[i]) <= NameRank(names[j])
       IN <<names[m]>> \o SortNames(SubSeq(names, 1, m - 1) \o SubSeq(names, m + 1, Len(names)))

Tools ==
  {"search_npm", "get_readme", "get_package_info", "get_downloads", "get_package_versions",
   "get_package_dependencies", "compare_packages", "search_by_keywords"}

\* The argument objects the model's callers pass, per tool.
ToolCalls ==
  { [tool |-> "search_npm", query |-> "react", size |-> Undefined, from |-> Undefined, weights |-> Undefined],
    [tool |-> "search_npm", query |-> "react", size |-> JsNumber(20), from |-> Undefined, weights |-> Undefined],
    [tool |-> "get_readme", name |-> "react", version |-> Undefined],
    [tool |-> "get_readme", name |-> "react", version |-> JsString("18.2.0")],
    [tool |-> "get_package_info", name |-> "react", version |-> Undefined, includeReadme |-> Undefined],
    [tool |-> "get_downloads", name |-> "react", period |-> Undefined],
    [tool |-> "get_downloads", name |-> "react", period |-> JsString("month")],
    [tool |-> "get_package_versions", name |-> "react", limit |-> Undefined, since |-> Undefined],
    [tool |-> "get_package_dependencies", name |-> "react", version |-> Undefined, depth |-> Undefined,
     includeDevDependencies |-> Undefined],
    [tool |-> "compare_packages", packages |-> <<"a", "b">>],
    [tool |-> "compare_packages", packages |-> <<"b", "a">>],
    [tool |-> "search_by_keywords", keywords |-> <<"react", "hooks">>, operator |-> Undefined, size |-> Undefined] }

\* Calls that differ from one of ToolCalls in one argument: a version given
\* as "latest", a package name holding the separator, a limit of 0 and an empty
\* `since`.
VariantCalls ==
  { [tool |-> "get_readme", name |-> "react", version |-> JsString("latest")],
    [tool |-> "get_package_versions", name |-> "react", limit |-> JsNumber(0), since |-> JsString("")],
    [tool |-> "get_package_dependencies", name |-> "react", version |-> JsString("latest"),
     depth |-> Undefined, includeDevDependencies |-> Undefined],
    [tool |-> "compare_packages", packages |-> <<"a|b">>] }

\* The resource npm://package/{name} (resources.ts) and the reads of it.
ResourceTool == "npm://package/{name}"
ResourceCalls == { [tool |-> ResourceTool, name |-> "react"] }

\* The parts each handler hands to key().
KeyParts(c) ==
  CASE c.tool = "search_npm" ->
         <<JsString("search"), JsString(c.query), OrElse(c.size, JsNumber(10)), OrElse(c.from, JsNumber(0)),
           OrElse(c.weights, JsonObject("{}"))>>
    [] c.tool = "get_readme" ->
         <<JsString("readme"), JsString(c.name), OrElse(c.version, JsString("latest"))>>
    [] c.tool = "get_package_info" ->
         <<JsString("info"), JsString(c.name), OrElse(c.version, JsString("latest")),
           OrElse(c.includeReadme, JsBoolean(FALSE))>>
    [] c.tool = "get_downloads" ->
         <<JsString("downloads"), JsString(c.name), OrElse(c.period, JsString("week"))>>
    [] c.tool = "get_package_versions" ->
         <<JsString("versions"), JsString(c.name), OrElse(c.limit, JsNumber(0)), OrElse(c.since, JsString(""))>>
    [] c.tool = "get_package_dependencies" ->
         <<JsString("deps"), JsString(c.name), OrElse(c.version, JsString("latest")),
           OrElse(c.depth, JsNumber(1)), OrElse(c.includeDevDependencies, JsBoolean(FALSE))>>
    [] c.tool = "compare_packages" ->
         <<JsString("compare")>> \o [i \in 1 .. Len(c.packages) |-> JsString(SortNames(c.packages)[i])]
    [] c.tool = "search_by_keywords" ->
         <<JsString("search_keywords"),
           JsString(Join(c.keywords, IF OrElse(c.operator, JsString("AND")) = JsString("AND") THEN " " ELSE " OR ")),
           OrElse(c.size, JsNumber(10))>>
    [] c.tool = ResourceTool -> <<JsString("packageInfo"), JsString(c.name)>>

\* The ttlMs each handler hands to cacheSet (none: the default TTL).
HandlerTtl(t) ==
  CASE t \in {"search_npm", "search_by_keywords"} -> Undefined
    [] t = "get_downloads" -> JsNumber(10 * 60000)
    [] OTHER -> JsNumber(5 * 60000)

\* The adapters each handler awaits on a miss, in order.
HandlerAdapters(t) ==
  CASE t \in {"search_npm", "search_by_keywords"} -> <<"searchNpm">>
    [] t = "get_readme" -> <<"getReadme">>
    [] t = "get_package_info" -> <<"getReadme", "downloadsLast", "fetchGithubRepo">>
    [] t = "get_downloads" -> <<"downloadsLast">>
    [] t = "get_package_versions" -> <<"getPackageVersions">>
    [] t = "get_package_dependencies" -> <<"getPackageDependencies">>
    [] OTHER -> <<"comparePackages">>

(***************************************************************************)
(* The states of the parts a specification does not exercise.              *)
(***************************************************************************)
\* The keys a run of the cache alone uses, and every key of the model.
CacheKeys == {"k1", "k2", "k3"}
AllKeys == CacheKeys \cup {Key(KeyParts(c)) : c \in ToolCalls \cup VariantCalls \cup ResourceCalls}

NoResult == [kind |-> "none", status |-> 0, attempt |-> 0, err |-> Undefined]
Returned(status, a) == [kind |-> "response", status |-> status, attempt |-> a, err |-> Undefined]
Thrown(e) == [kind |-> "throw", status |-> 0, attempt |-> 0, err |-> e]

\* An httpGet call that has not been made.
HttpIdle ==
  /\ retriesOpt = Undefined
  /\ hpc = "idle"
  /\ attempt = 0
  /\ fetchLog = <<>>
  /\ timers = {}
  /\ lastErr = Undefined
  /\ hret = NoResult
  /\ sleepLog = <<>>
  /\ apc = "idle"

\* The cache of a process started without CACHE_TTL_MS and CACHE_MAX, before
\* its first use; the clock reads a positive time.
CacheIdle ==
  /\ envTtl = Undefined
  /\ envMax = Undefined
  /\ cache = <<>>
  /\ now = 1
  /\ ticks = 0
  /\ opCount = 0
  /\ lastOp = NoOp
  /\ prevOp = NoOp
  /\ setAt = [k \in AllKeys |-> NoSet]
  /\ lastUse = [k \in AllKeys |-> 0]

\* A comparePackages call that has not been made.
CompareIdle ==
  /\ packages = <<>>
  /\ cpc = "idle"
  /\ task = <<>>
  /\ doneOrder = <<>>
  /\ results = <<>>

\* No tool invocation.
ToolsIdle ==
  /\ tool = ""
  /\ inv = <<>>

NoAdapterCall == [fn |-> "", text |-> "", num |-> 0, raw |-> Undefined]
NoResponse == [status |-> 0, statusText |-> "", body |-> Undefined, today |-> 0]

\* No adapter called on its own.
AdaptersIdle ==
  /\ adCall = NoAdapterCall
  /\ adPc = "idle"
  /\ adReqs = <<>>
  /\ adResp = NoResponse
  /\ adOut = Undefined

\* No call of key() on its own.
KeyIdle ==
  /\ keyArgs = <<>>
  /\ keyOut = <<>>

(***************************************************************************)
(* httpGet                                                                 *)
(***************************************************************************)
MaxRetries == 2

RetriesInputs == {Undefined} \cup {JsNumber(r) : r \in -1 .. MaxRetries}

Max(a, b) == IF a >= b THEN a ELSE b

\* Mutant: one attempt too many (attempt <= retries + 1).
RetriesOffByOne(opt) == (IF opt = Undefined THEN 1 ELSE IF opt.n > 0 THEN opt.n ELSE 0) + 1

\* const retries = Math.max(0, opts.retries ?? 1)
Retries(opt) == Max(0, IF opt = Undefined THEN 1 ELSE opt.n)

\* Mutant: rethrows whatever was captured, wrapped or not.
FinalThrowRaw(e) == e

\* if (lastErr instanceof Error) throw lastErr; throw new Error(String(lastErr));
FinalThrow(e) == IF InstanceOfError(e) THEN e ELSE JsError(String(e))

\* await sleep(300 * (attempt + 1))
\* Mutant: the same wait after every failed attempt.
BackoffConstant(a) == 300

\* sleep(300 * (attempt + 1))
Backoff(a) == 300 * (a + 1)

InitHttp ==
  /\ CacheIdle
  /\ CompareIdle
  /\ ToolsIdle
  /\ AdaptersIdle
  /\ KeyIdle
  /\ retriesOpt \in RetriesInputs
  /\ hpc = "loop"
  /\ attempt = 0
  /\ fetchLog = <<>>
  /\ timers = {}
  /\ lastErr = Undefined
  /\ hret = NoResult
  /\ sleepLog = <<>>
  /\ apc = "inHttpGet"

\* for (...; attempt <= retries; ...) { controller; setTimeout; fetch(...)
\* (the loop is always left by `return` or `break`, never by its condition).
AttemptStart ==
  /\ UNCHANGED nonHttpVars
  /\ hpc = "loop"
  /\ attempt <= Retries(retriesOpt)
  /\ timers' = timers \cup {attempt}
  /\ fetchLog' = Append(fetchLog, [outcome |-> "pending", status |-> 0, err |-> Undefined])
  /\ hpc' = "fetching"
  /\ UNCHANGED <<retriesOpt, attempt, lastErr, hret, sleepLog, apc>>

\* The catch block of one attempt, entered with the rejection `e`.
Catch(e, outcome) ==
  /\ lastErr' = e
  /\ fetchLog' = [fetchLog EXCEPT ![Len(fetchLog)] = [outcome |-> outcome, status |-> 0, err |-> e]]
  /\ IF attempt = Retries(retriesOpt)
       THEN /\ hpc' = "thrown"
            /\ hret' = Thrown(FinalThrow(e))
            /\ apc' = "threw"
            /\ UNCHANGED sleepLog
       ELSE /\ hpc' = "sleeping"
            /\ sleepLog' = Append(sleepLog, Backoff(attempt))
            /\ UNCHANGED <<hret, apc>>
  /\ UNCHANGED <<retriesOpt, attempt>>

\* Mutant: a non-2xx response is treated as a failed attempt and retried.
FetchResolveRetryingStatus(status) ==
  /\ UNCHANGED nonHttpVars
  /\ hpc = "fetching"
  /\ timers' = timers \ {attempt}
  /\ IF ResponseOk(status)
       THEN /\ fetchLog' = [fetchLog EXCEPT ![Len(fetchLog)] = [outcome |-> "resolved", status |-> status, err |-> Undefined]]
            /\ hpc' = "returned"
            /\ hret' = Returned(status, attempt)
            /\ apc' = "gotResponse"
            /\ UNCHANGED <<retriesOpt, attempt, lastErr, sleepLog>>
       ELSE Catch(JsError("HTTP " \o ToString(status)), "resolved")

\* const res = await fetch(...); clearTimeout(t); return res;
FetchResolve(status) ==
  /\ UNCHANGED nonHttpVars
  /\ hpc = "fetching"
  /\ fetchLog' = [fetchLog EXCEPT ![Len(fetchLog)] = [outcome |-> "resolved", status |-> status, err |-> Undefined]]
  /\ timers' = timers \ {attempt}
  /\ hpc' = "returned"
  /\ hret' = Returned(status, attempt)
  /\ apc' = "gotResponse"
  /\ UNCHANGED <<retriesOpt, attempt, lastErr, sleepLog>>

\* fetch() rejects with a network-level failure; the attempt's timer is not cleared.
FetchReject(e) ==
  /\ UNCHANGED nonHttpVars
  /\ hpc = "fetching"
  /\ Catch(e, "rejected")
  /\ UNCHANGED timers

\* A timer fires and calls abort() on the controller of the attempt that armed it.
\* Only a request still in flight on that controller is rejected by it.
TimerFire(a) ==
  /\ UNCHANGED nonHttpVars
  /\ a \in timers
  /\ timers' = timers \ {a}
  /\ IF hpc = "fetching" /\ a = attempt
       THEN Catch(AbortError, "aborted")
       ELSE UNCHANGED <<retriesOpt, hpc, attempt, fetchLog, lastErr, hret, sleepLog, apc>>

\* sleep() resolves: attempt++ and back to the loop condition.
SleepDone ==
  /\ UNCHANGED nonHttpVars
  /\ hpc = "sleeping"
  /\ attempt' = attempt + 1
  /\ hpc' = "loop"
  /\ UNCHANGED <<retriesOpt, fetchLog, timers, lastErr, hret, sleepLog, apc>>

(***************************************************************************)
(* The adapter around httpGet (getReadme, downloadsLast, ...):             *)
(*   const res = await httpGet(url); if (!res.ok) throw ...;               *)
(*   const data = await res.json();                                        *)
(***************************************************************************)
AdapterCheckStatus ==
  /\ UNCHANGED nonHttpVars
  /\ apc = "gotResponse"
  /\ apc' = IF ResponseOk(hret.status) THEN "readingBody" ELSE "threw"
  /\ UNCHANGED <<retriesOpt, hpc, attempt, fetchLog, timers, lastErr, hret, sleepLog>>

\* Upstream delivers the whole body: res.json() resolves.
BodyDelivered ==
  /\ UNCHANGED nonHttpVars
  /\ apc = "readingBody"
  /\ apc' = "returned"
  /\ UNCHANGED <<retriesOpt, hpc, attempt, fetchLog, timers, lastErr, hret, sleepLog>>

\* The body stream fails or is not JSON: res.json() rejects.
BodyFails ==
  /\ UNCHANGED nonHttpVars
  /\ apc = "readingBody"
  /\ apc' = "threw"
  /\ UNCHANGED <<retriesOpt, hpc, attempt, fetchLog, timers, lastErr, hret, sleepLog>>

NextHttp ==
  \/ AttemptStart
  \/ \E status \in Statuses : FetchResolve(status)
  \/ \E e \in NetworkFailures : FetchReject(e)
  \/ \E a \in 0 .. MaxRetries + 1 : TimerFire(a)
  \/ SleepDone
  \/ AdapterCheckStatus
  \/ BodyDelivered
  \/ BodyFails

SpecHttp == InitHttp /\ [][NextHttp]_vars

(***************************************************************************)
(* SpecCache: any sequence of cacheSet and cacheGet calls, with time       *)
(* passing between them.                                                   *)
(***************************************************************************)
MaxOps == 4
MaxTicks == 1

\* CACHE_TTL_MS and CACHE_MAX as the process may find them.
EnvTtlInputs == {Undefined, JsNumber(2)}
EnvMaxInputs == {Undefined, JsNumber(2)}

\* The ttlMs arguments of cacheSet, and the steps of the clock.
TtlInputs == {Undefined, JsNumber(0), JsNumber(1)}
ClockSteps == {1, 2, 60000, 60001}

\* Keys are interchangeable: a run names them in the order of their first cacheSet.
KeyRank(k) == CHOOSE r \in 1 .. 3 : <<"k1", "k2", "k3">>[r] = k
KeyInUse(k) == \A j \in CacheKeys : KeyRank(j) < KeyRank(k) => setAt[j] # NoSet

InitCache ==
  /\ HttpIdle
  /\ CompareIdle
  /\ ToolsIdle
  /\ AdaptersIdle
  /\ KeyIdle
  /\ envTtl \in EnvTtlInputs
  /\ envMax \in EnvMaxInputs
  /\ cache = <<>>
  /\ now = 1
  /\ ticks = 0
  /\ opCount = 0
  /\ lastOp = NoOp
  /\ prevOp = NoOp
  /\ setAt = [k \in AllKeys |-> NoSet]
  /\ lastUse = [k \in AllKeys |-> 0]

CacheSetOp(k, ttlArg) ==
  /\ opCount < MaxOps
  /\ KeyInUse(k)
  /\ CacheSetCall(k, Payload("v", opCount + 1), ttlArg)
  /\ UNCHANGED nonCacheVars

CacheGetOp(k) ==
  /\ opCount < MaxOps
  /\ KeyInUse(k)
  /\ CacheGetCall(k)
  /\ UNCHANGED nonCacheVars

\* Time passes: the clock the cache reads moves on.
Advance(d) ==
  /\ ticks < MaxTicks
  /\ opCount > 0
  /\ opCount < MaxOps
  /\ now' = now + d
  /\ ticks' = ticks + 1
  /\ prevOp' = NoOp
  /\ lastOp' = [NoOp EXCEPT !.op = "tick"]
  /\ UNCHANGED <<envTtl, envMax, cache, opCount, setAt, lastUse>>
  /\ UNCHANGED nonCacheVars

NextCache ==
  \/ \E k \in CacheKeys, ttlArg \in TtlInputs : CacheSetOp(k, ttlArg)
  \/ \E k \in CacheKeys : CacheGetOp(k)
  \/ \E d \in ClockSteps : Advance(d)

SpecCache == InitCache /\ [][NextCache]_vars

(***************************************************************************)
(* comparePackages (npm.ts) with getReadme, downloadsLast, fetchGithubRepo *)
(* as the per-package steps. Upstream decides, per request, whether and    *)
(* with what it completes.                                                 *)
(***************************************************************************)
MaxPkgs == 2

\* The names a caller passes: two packages and a blank string.
PkgNames == {"react", " vue ", "  "}

\* pkg.trim() on those names.
Trim(str) == CASE str = " vue " -> "vue" [] str = "  " -> "" [] OTHER -> str

\* Registry documents GET /<name> can answer with.
GithubUrl == "git+https://github.com/facebook/react.git"
RegistryDocs ==
  { [name |-> JsString("registry-name"), version |-> JsString("1.0.0"),
     readme |-> JsString("# Title"), repository |-> JsString(GithubUrl),
     homepage |-> JsString("https://example.com")],
    [name |-> Undefined, version |-> Undefined, readme |-> Undefined,
     repository |-> JsString("https://gitlab.com/x/y"), homepage |-> Undefined] }

\* What getReadme returns for a registry document: name falls back to the
\* trimmed name that was asked for.
GetReadmeResult(safe, data) ==
  [name |-> IF data.name = Undefined THEN JsString(safe) ELSE data.name,
   version |-> data.version,
   readme |-> data.readme,
   repository |-> data.repository,
   homepage |-> data.homepage]

\* What the awaited getReadme can reject with.
MetaFailures ==
  {JsError("npm package fetch failed: 404 Not Found"), JsError("ECONNRESET"), JsString("boom"), JsObject}

\* parseGithubRepo on the repository strings in use.
ParseGithubRepo(raw) ==
  IF raw = JsString(GithubUrl) THEN [owner |-> "facebook", repo |-> "react"] ELSE Undefined

\* What fetchGithubRepo resolves with: undefined, the degraded object of a
\* non-2xx answer, or the mapped repository.
NoRepoInfo == [stars |-> Undefined, forks |-> Undefined, license |-> Undefined]
RepoInfos == {[stars |-> JsNumber(5), forks |-> JsNumber(3), license |-> JsString("MIT")]}

\* pkgData.readme?.split("\n")[0]?.replace(/^#+ */, "").trim().substring(0, 200)
Describe(readme) ==
  IF readme = Undefined THEN Undefined
  ELSE IF readme = JsString("# Title") THEN JsString("Title")
  ELSE readme

SuccessKeys ==
  {"name", "version", "description", "downloads", "stars", "forks", "license", "repository", "homepage"}

\* The object built after the enrichment steps.
SuccessEntry(i, m, dl, gh) ==
  [idx |-> i, keys |-> SuccessKeys, name |-> m.name, version |-> m.version,
   description |-> Describe(m.readme), downloads |-> dl,
   stars |-> gh.stars, forks |-> gh.forks, license |-> gh.license,
   repository |-> m.repository, homepage |-> m.homepage, error |-> Undefined]

\* catch (err) { return { name: pkg, error: err instanceof Error ? err.message : String(err) } }
ErrorEntry(i, pkg, err) ==
  [idx |-> i, keys |-> {"name", "error"}, name |-> JsString(pkg), version |-> Undefined,
   description |-> Undefined, downloads |-> Undefined,
   stars |-> Undefined, forks |-> Undefined, license |-> Undefined,
   repository |-> Undefined, homepage |-> Undefined,
   error |-> JsString(IF InstanceOfError(err) THEN err.s ELSE String(err))]

NoEntry == ErrorEntry(0, "", Undefined)
NoMeta == GetReadmeResult("", [name |-> Undefined, version |-> Undefined, readme |-> Undefined,
                               repository |-> Undefined, homepage |-> Undefined])

\* One callback of packages.map: where it is, what it has fetched so far, the
\* requests it has issued, and the entry it resolved with.
NewTask == [pc |-> "start", meta |-> NoMeta, metaErr |-> Undefined, downloads |-> Undefined,
            dlOutcome |-> "none", gh |-> NoRepoInfo, ghOutcome |-> "none", reqs |-> <<>>,
            ghCalled |-> FALSE, ghArg |-> Undefined, entry |-> NoEntry]

\* Mutant: the GitHub request goes out together with the registry request.
StartTaskEager(pkg, i) ==
  IF Trim(pkg) = ""
    THEN [NewTask EXCEPT !.pc = "done",
                         !.metaErr = JsError("Package name cannot be empty"),
                         !.entry = ErrorEntry(i, pkg, JsError("Package name cannot be empty"))]
    ELSE [NewTask EXCEPT !.pc = "meta", !.reqs = <<"registry", "github">>, !.ghCalled = TRUE]

\* The synchronous part of the callback for packages[i]: trim, validate, call getReadme.
StartTask(pkg, i) ==
  IF Trim(pkg) = ""
    THEN [NewTask EXCEPT !.pc = "done",
                         !.metaErr = JsError("Package name cannot be empty"),
                         !.entry = ErrorEntry(i, pkg, JsError("Package name cannot be empty"))]
    ELSE [NewTask EXCEPT !.pc = "meta", !.reqs = <<"registry">>]

Indices == 1 .. Len(packages)

SeqsUpTo(S, n) == UNION {[1 .. m -> S] : m \in 0 .. n}

InitCompare ==
  /\ HttpIdle
  /\ CacheIdle
  /\ ToolsIdle
  /\ AdaptersIdle
  /\ KeyIdle
  /\ packages \in SeqsUpTo(PkgNames, MaxPkgs)
  /\ cpc = "called"
  /\ task = <<>>
  /\ doneOrder = <<>>
  /\ results = <<>>

\* comparePackages(packages) up to its first suspension: the two length checks,
\* then packages.map starts every callback in input order.
CompareCall ==
  /\ cpc = "called"
  /\ IF Len(packages) = 0 \/ Len(packages) > 10
       THEN /\ cpc' = "thrown"
            /\ UNCHANGED <<task, doneOrder>>
       ELSE /\ cpc' = "running"
            /\ task' = [i \in Indices |-> StartTask(packages[i], i)]
            /\ doneOrder' = SelectSeq([i \in Indices |-> i], LAMBDA i : Trim(packages[i]) = "")
  /\ UNCHANGED <<packages, results>>
  /\ UNCHANGED nonCmpVars

\* const pkgData = await getReadme(safe) resolves; downloadsLast("week", safe) is called.
MetaResolves(i, data) ==
  /\ cpc = "running"
  /\ task[i].pc = "meta"
  /\ task' = [task EXCEPT ![i].pc = "downloads",
                          ![i].meta = GetReadmeResult(Trim(packages[i]), data),
                          ![i].reqs = Append(@, "downloads")]
  /\ UNCHANGED <<packages, cpc, doneOrder, results>>
  /\ UNCHANGED nonCmpVars

\* Mutant: the callback has no catch of its own, so Promise.all rejects.
MetaRejectsUncaught(i, e) ==
  /\ cpc = "running"
  /\ task[i].pc = "meta"
  /\ task' = [task EXCEPT ![i].pc = "done", ![i].metaErr = e]
  /\ cpc' = "thrown"
  /\ UNCHANGED <<packages, doneOrder, results>>
  /\ UNCHANGED nonCmpVars

\* await getReadme(safe) rejects: the outer catch turns it into { name, error }.
MetaRejects(i, e) ==
  /\ cpc = "running"
  /\ task[i].pc = "meta"
  /\ task' = [task EXCEPT ![i].pc = "done", ![i].metaErr = e,
                          ![i].entry = ErrorEntry(i, packages[i], e)]
  /\ doneOrder' = Append(doneOrder, i)
  /\ UNCHANGED <<packages, cpc, results>>
  /\ UNCHANGED nonCmpVars

\* After the downloads step: fetchGithubRepo(pkgData.repository) returns undefined
\* at once for a repository it cannot parse, else issues the GitHub request.
AfterDownloads(i, dl, outcome) ==
  IF ParseGithubRepo(task[i].meta.repository) = Undefined
    THEN /\ task' = [task EXCEPT ![i].pc = "done", ![i].downloads = dl, ![i].dlOutcome = outcome,
                                 ![i].ghCalled = TRUE, ![i].ghArg = task[i].meta.repository,
                                 ![i].entry = SuccessEntry(i, task[i].meta, dl, NoRepoInfo)]
         /\ doneOrder' = Append(doneOrder, i)
    ELSE /\ task' = [task EXCEPT ![i].pc = "github", ![i].downloads = dl, ![i].dlOutcome = outcome,
                                 ![i].ghCalled = TRUE, ![i].ghArg = task[i].meta.repository,
                                 ![i].reqs = Append(@, "github")]
         /\ UNCHANGED doneOrder

\* await downloadsLast("week", safe) resolves: downloads = dlData.downloads.
DownloadsResolves(i, n) ==
  /\ cpc = "running"
  /\ task[i].pc = "downloads"
  /\ AfterDownloads(i, JsNumber(n), "resolved")
  /\ UNCHANGED <<packages, cpc, results>>
  /\ UNCHANGED nonCmpVars

\* Mutant: a failed downloads fetch ends the package's computation in the outer catch.
DownloadsRejectsAborting(i) ==
  /\ cpc = "running"
  /\ task[i].pc = "downloads"
  /\ task' = [task EXCEPT ![i].pc = "done", ![i].dlOutcome = "rejected",
                          ![i].entry = ErrorEntry(i, packages[i], JsError("downloads fetch failed: 500 Internal Server Error"))]
  /\ doneOrder' = Append(doneOrder, i)
  /\ UNCHANGED <<packages, cpc, results>>
  /\ UNCHANGED nonCmpVars

\* await downloadsLast rejects: catch {} leaves downloads undefined.
DownloadsRejects(i) ==
  /\ cpc = "running"
  /\ task[i].pc = "downloads"
  /\ AfterDownloads(i, Undefined, "rejected")
  /\ UNCHANGED <<packages, cpc, results>>
  /\ UNCHANGED nonCmpVars

\* await fetchGithubRepo resolves (with the repository data, or with the
\* degraded object of a non-2xx answer, which has no stars, forks or license).
GithubResolves(i, gh) ==
  /\ cpc = "running"
  /\ task[i].pc = "github"
  /\ task' = [task EXCEPT ![i].pc = "done", ![i].gh = gh, ![i].ghOutcome = "resolved",
                          ![i].entry = SuccessEntry(i, task[i].meta, task[i].downloads, gh)]
  /\ doneOrder' = Append(doneOrder, i)
  /\ UNCHANGED <<packages, cpc, results>>
  /\ UNCHANGED nonCmpVars

\* await fetchGithubRepo rejects: catch {} leaves stars, forks, license undefined.
GithubRejects(i) ==
  /\ cpc = "running"
  /\ task[i].pc = "github"
  /\ task' = [task EXCEPT ![i].pc = "done", ![i].ghOutcome = "rejected",
                          ![i].entry = SuccessEntry(i, task[i].meta, task[i].downloads, NoRepoInfo)]
  /\ doneOrder' = Append(doneOrder, i)
  /\ UNCHANGED <<packages, cpc, results>>
  /\ UNCHANGED nonCmpVars

\* Mutant: the entries are collected as their callbacks finish.
CompareResolvesInCompletionOrder ==
  /\ cpc = "running"
  /\ \A i \in Indices : task[i].pc = "done"
  /\ results' = [n \in Indices |-> task[doneOrder[n]].entry]
  /\ cpc' = "resolved"
  /\ UNCHANGED <<packages, task, doneOrder>>
  /\ UNCHANGED nonCmpVars

\* results.push(...(await Promise.all(promises))); return results;
CompareResolves ==
  /\ cpc = "running"
  /\ \A i \in Indices : task[i].pc = "done"
  /\ results' = [i \in Indices |-> task[i].entry]
  /\ cpc' = "resolved"
  /\ UNCHANGED <<packages, task, doneOrder>>
  /\ UNCHANGED nonCmpVars

NextCompare ==
  \/ CompareCall
  \/ \E i \in Indices, data \in RegistryDocs : MetaResolves(i, data)
  \/ \E i \in Indices, e \in MetaFailures : MetaRejects(i, e)
  \/ \E i \in Indices : DownloadsResolves(i, 1000)
  \/ \E i \in Indices : DownloadsRejects(i)
  \/ \E i \in Indices, gh \in RepoInfos \cup {NoRepoInfo} : GithubResolves(i, gh)
  \/ \E i \in Indices : GithubRejects(i)
  \/ CompareResolves

SpecCompare == InitCompare /\ [][NextCompare]_vars

(***************************************************************************)
(* The caching tool handlers (tools.ts): several invocations of one tool   *)
(* in flight at once over the shared cache.  A handler runs from its       *)
(* cacheGet to its first await in one step, and from the last adapter's    *)
(* answer through cacheSet to its return in one step.                      *)
(***************************************************************************)
NInv == 3

\* The CACHE_MAX settings of a run of the tools, and the clock's steps: up to
\* the end of the ttl the handler's cacheSet asks for, and just past it.
ToolEnvMaxInputs == {Undefined, JsNumber(1)}
ToolClockSteps(t) ==
  LET ttl == EffectiveTtl(HandlerTtl(t), DefaultTtlMs(Undefined)) IN {ttl, ttl + 1}

\* if (cached): what JavaScript takes for true.
Truthy(v) ==
  CASE v.t = "undefined" -> FALSE
    [] v.t = "null" -> FALSE
    [] v.t = "number" -> v.n # 0
    [] v.t = "string" -> v.s # ""
    [] v.t = "boolean" -> v.n = 1
    [] OTHER -> TRUE

\* What the adapters throw.
AdapterFailures == {JsError("registry fetch failed: 404 Not Found")}

\* Mutant: only the message of an Error is reported.
ErrorMessageOfErrorsOnly(err) == IF InstanceOfError(err) THEN err.s ELSE "Unknown error"

\* export function errorMessage(err), as the template literal of the catch
\* renders it: JSON.stringify(undefined) is undefined, rendered "undefined".
ErrorMessage(err) ==
  IF InstanceOfError(err) THEN err.s
  ELSE IF err = Undefined THEN "undefined"
  ELSE JsonStringify(err)

\* The label each handler's catch puts before the message.
ErrorLabel(t) ==
  CASE t = "search_npm" -> "searchNpm"
    [] t = "get_readme" -> "getReadme"
    [] t = "get_package_info" -> "getPackageInfo"
    [] t = "get_downloads" -> "getDownloads"
    [] OTHER -> t

\* The ToolResult of a handler: content rendered from a payload, or an error text.
Content(payload) == [isError |-> FALSE, payload |-> payload, text |-> ""]
ErrorResult(t, err) ==
  [isError |-> TRUE, payload |-> Undefined, text |-> ErrorLabel(t) \o " error: " \o ErrorMessage(err)]
NoToolResult == [isError |-> FALSE, payload |-> Undefined, text |-> ""]

\* No adapter of the invocation has thrown.
NotThrown == [t |-> "none", s |-> "", n |-> 0]

\* const k = key(["compare", ...packages.sort()]): sort() sorts the caller's
\* array in place, and it is this array that comparePackages(packages) is given.
PackagesAfterKey(c) == IF c.tool = "compare_packages" THEN SortNames(c.packages) ELSE <<>>

\* An invocation as it stands after its cacheGet.
NewInvocation(c, k, cached, pc, adapters, result) ==
  [call |-> c, key |-> k, cached |-> cached, pc |-> pc, adapters |-> adapters,
   packages |-> PackagesAfterKey(c), threw |-> NotThrown, degraded |-> FALSE,
   wrote |-> FALSE, result |-> result]

InitTools ==
  /\ HttpIdle
  /\ CompareIdle
  /\ AdaptersIdle
  /\ KeyIdle
  /\ envTtl = Undefined
  /\ envMax \in ToolEnvMaxInputs
  /\ cache = <<>>
  /\ now = 1
  /\ ticks = 0
  /\ opCount = 0
  /\ lastOp = NoOp
  /\ prevOp = NoOp
  /\ setAt = [k \in AllKeys |-> NoSet]
  /\ lastUse = [k \in AllKeys |-> 0]
  /\ tool \in Tools
  /\ inv = <<>>

\* Mutant: a handler that does not look at what cacheGet returned.
ToolInvokeIgnoringCache(c) ==
  LET k == Key(KeyParts(c))
  IN /\ Len(inv) < NInv
     /\ c.tool = tool
     /\ CacheGetCall(k)
     /\ inv' = Append(inv, NewInvocation(c, k, LruGetValue(cache, k, now), "awaiting",
                                         <<HandlerAdapters(c.tool)[1]>>, NoToolResult))
     /\ UNCHANGED tool
     /\ UNCHANGED <<httpVars, cmpVars, adapterVars, keyVars>>

\* A handler is called: key, cacheGet, and on a hit the answer from the cached
\* payload; on a miss the first adapter is called and the handler awaits it.
ToolInvoke(c) ==
  LET k == Key(KeyParts(c))
      cached == LruGetValue(cache, k, now)
  IN /\ Len(inv) < NInv
     /\ c.tool = tool
     /\ CacheGetCall(k)
     /\ inv' = Append(inv,
          IF Truthy(cached)
            THEN NewInvocation(c, k, cached, "done", <<>>, Content(cached))
            ELSE NewInvocation(c, k, cached, "awaiting", <<HandlerAdapters(c.tool)[1]>>, NoToolResult))
     /\ UNCHANGED tool
     /\ UNCHANGED <<httpVars, cmpVars, adapterVars, keyVars>>

\* The awaited adapter resolves and the handler has another one to await
\* (get_package_info: getReadme, then downloadsLast, then fetchGithubRepo).
AdapterResolvesNext(i) ==
  /\ i \in 1 .. Len(inv)
  /\ tool \in Tools
  /\ inv[i].pc = "awaiting"
  /\ Len(inv[i].adapters) < Len(HandlerAdapters(tool))
  /\ inv' = [inv EXCEPT ![i].adapters = Append(@, HandlerAdapters(tool)[Len(@) + 1])]
  /\ UNCHANGED tool
  /\ UNCHANGED <<httpVars, cacheVars, cmpVars, adapterVars, keyVars>>

\* The last awaited adapter resolves: the handler builds the payload, stores it
\* with its ttl and returns its content.
AdapterResolvesLast(i) ==
  /\ i \in 1 .. Len(inv)
  /\ tool \in Tools
  /\ inv[i].pc = "awaiting"
  /\ Len(inv[i].adapters) = Len(HandlerAdapters(tool))
  /\ CacheSetCall(inv[i].key, Payload(tool, i), HandlerTtl(tool))
  /\ inv' = [inv EXCEPT ![i].pc = "done", ![i].wrote = TRUE, ![i].result = Content(Payload(tool, i))]
  /\ UNCHANGED tool
  /\ UNCHANGED <<httpVars, cmpVars, adapterVars, keyVars>>

\* The awaited adapter rejects: the handler's catch returns an error result.
AdapterRejects(i, err) ==
  /\ i \in 1 .. Len(inv)
  /\ tool \in Tools
  /\ inv[i].pc = "awaiting"
  /\ inv' = [inv EXCEPT ![i].pc = "done", ![i].threw = err, ![i].result = ErrorResult(tool, err)]
  /\ UNCHANGED tool
  /\ UNCHANGED <<httpVars, cacheVars, cmpVars, adapterVars, keyVars>>

\* Time passes between two steps of the handlers.
ToolsAdvance(d) ==
  /\ ticks < MaxTicks
  /\ inv # <<>>
  /\ now' = now + d
  /\ ticks' = ticks + 1
  /\ prevOp' = NoOp
  /\ lastOp' = [NoOp EXCEPT !.op = "tick"]
  /\ UNCHANGED <<envTtl, envMax, cache, opCount, setAt, lastUse>>
  /\ UNCHANGED <<httpVars, cmpVars, toolVars, adapterVars, keyVars>>

NextTools ==
  \/ \E c \in ToolCalls : ToolInvoke(c)
  \/ \E i \in 1 .. NInv : AdapterResolvesNext(i)
  \/ \E i \in 1 .. NInv : AdapterResolvesLast(i)
  \/ \E i \in 1 .. NInv, err \in AdapterFailures : AdapterRejects(i, err)
  \/ \E d \in ToolClockSteps(tool) : ToolsAdvance(d)

SpecTools == InitTools /\ [][NextTools]_vars

(***************************************************************************)
(* The handlers, a few calls at a time, with all they can meet: calls that *)
(* differ in one argument, adapters that throw values of any kind, a       *)
(* comparison that resolves with failed entries, and reads of the          *)
(* npm://package/{name} resource (resources.ts), which uses the same cache. *)
(***************************************************************************)
MaxCalls == 2

\* What an adapter can throw: its own Errors (validation, upstream status,
\* transport) and, from code it calls, values that are no Error.
ThrownValues ==
  {JsError("npm package fetch failed: 404 Not Found"), JsString("boom"), JsonObject("{\"code\":1}"),
   Undefined}

\* JSON.stringify(info, null, 2) of the resource read i: a non-empty string.
InfoText(i) == [t |-> "string", s |-> "packageInfo", n |-> i]

InitHandlers ==
  /\ HttpIdle
  /\ CompareIdle
  /\ AdaptersIdle
  /\ KeyIdle
  /\ CacheIdle
  /\ tool \in Tools \cup {ResourceTool}
  /\ inv = <<>>

\* comparePackages resolves with an array in which an entry carries `error`
\* (a package whose metadata fetch failed); the handler stores and returns it
\* like any other array.
CompareResolvesWithError(i) ==
  /\ i \in 1 .. Len(inv)
  /\ tool = "compare_packages"
  /\ inv[i].pc = "awaiting"
  /\ CacheSetCall(inv[i].key, Payload(tool, i), HandlerTtl(tool))
  /\ inv' = [inv EXCEPT ![i].pc = "done", ![i].wrote = TRUE, ![i].degraded = TRUE,
                         ![i].result = Content(Payload(tool, i))]
  /\ UNCHANGED tool
  /\ UNCHANGED <<httpVars, cmpVars, adapterVars, keyVars>>

\* handleResourceRead("npm://package/<name>"): key, cacheGet, and on a miss the
\* three fetches of Promise.all are started.
ResourceRead(c) ==
  LET k == Key(KeyParts(c))
      cached == LruGetValue(cache, k, now)
  IN /\ Len(inv) < NInv
     /\ c.tool = tool
     /\ CacheGetCall(k)
     /\ inv' = Append(inv,
          IF Truthy(cached)
            THEN NewInvocation(c, k, cached, "done", <<>>, Content(cached))
            ELSE NewInvocation(c, k, cached, "awaiting", <<"getReadme", "downloadsLast", "getReadme">>,
                               NoToolResult))
     /\ UNCHANGED tool
     /\ UNCHANGED <<httpVars, cmpVars, adapterVars, keyVars>>

\* Promise.all settles: each fetch has resolved or was replaced by its catch
\* (null for the metadata, { downloads: 0 } for the downloads); the text built
\* from them is stored for five minutes and returned.
ResourceSettles(i, metaOk, dlOk) ==
  /\ i \in 1 .. Len(inv)
  /\ tool = ResourceTool
  /\ inv[i].pc = "awaiting"
  /\ CacheSetCall(inv[i].key, InfoText(i), JsNumber(300000))
  /\ inv' = [inv EXCEPT ![i].pc = "done", ![i].wrote = TRUE, ![i].degraded = ~(metaOk /\ dlOk),
                         ![i].result = Content(InfoText(i))]
  /\ UNCHANGED tool
  /\ UNCHANGED <<httpVars, cmpVars, adapterVars, keyVars>>

NextHandlers ==
  \/ \E c \in ToolCalls \cup VariantCalls : Len(inv) < MaxCalls /\ ToolInvoke(c)
  \/ \E c \in ResourceCalls : Len(inv) < MaxCalls /\ ResourceRead(c)
  \/ \E i \in 1 .. MaxCalls : AdapterResolvesNext(i)
  \/ \E i \in 1 .. MaxCalls : AdapterResolvesLast(i)
  \/ \E i \in 1 .. MaxCalls, err \in ThrownValues : AdapterRejects(i, err)
  \/ \E i \in 1 .. MaxCalls : CompareResolvesWithError(i)
  \/ \E i \in 1 .. MaxCalls, metaOk, dlOk \in BOOLEAN : ResourceSettles(i, metaOk, dlOk)
  \/ \E d \in ToolClockSteps(tool) : ToolsAdvance(d)

SpecHandlers == InitHandlers /\ [][NextHandlers]_vars

(***************************************************************************)
(* One call of an adapter (npm.ts, downloads.ts, github.ts): validation,   *)
(* the request handed to httpGet, the status check and the body read.      *)
(* httpGet itself is SpecHttp's; here it resolves with a response of any   *)
(* status or throws.                                                       *)
(***************************************************************************)
\* Date strings and what new Date(str).getTime() gives for them, in days of an
\* abstract calendar; NaN for a string that is no date.
NaN == -1
DateStrings ==
  {"2020-01-01T00:00:00.000Z", "2021-01-01T00:00:00.000Z", "2022-01-01T00:00:00.000Z", "not a date"}
GetTime(str) ==
  CASE str = "2020-01-01T00:00:00.000Z" -> 100
    [] str = "2021-01-01T00:00:00.000Z" -> 200
    [] str = "2022-01-01T00:00:00.000Z" -> 300
    [] OTHER -> NaN

\* The `since` arguments: none, the empty string, an ISO date, relative spans
\* (one in capitals, one padded with blanks), and text that is neither.
SinceInputs ==
  {Undefined, JsString(""), JsString("2021-01-01T00:00:00.000Z"), JsString("1 year"), JsString("2 YEARS"),
   JsString(" 30 days "), JsString("1 month"), JsString("last week")}

\* The days getPackageVersions runs on; a year and a month in days of that
\* calendar (ten months of ten days).
Todays == {350, 420}
DaysPerYear == 100
DaysPerMonth == 10

\* /^(\d+)\s*(month|year|day)s?$/i.exec(since.trim()) on the strings in use:
\* the amount and the unit in lower case, Undefined when there is no match.
RelativeMatch(str) ==
  CASE str = "1 year" -> [amount |-> 1, unit |-> "year"]
    [] str = "2 YEARS" -> [amount |-> 2, unit |-> "year"]
    [] str = " 30 days " -> [amount |-> 30, unit |-> "day"]
    [] str = "1 month" -> [amount |-> 1, unit |-> "month"]
    [] OTHER -> Undefined

\* Mutant: only the absolute form is understood.
SinceDateAbsoluteOnly(since, today) ==
  IF since = Undefined \/ since.s = "" THEN NaN ELSE GetTime(since.s)

\* sinceDate: the parsed date, else today minus the span of the relative
\* format, else undefined (NaN here).
SinceDate(since, today) ==
  IF since = Undefined \/ since.s = "" THEN NaN
  ELSE IF GetTime(since.s) # NaN THEN GetTime(since.s)
  ELSE IF RelativeMatch(since.s) # Undefined
    THEN LET m == RelativeMatch(since.s)
         IN CASE m.unit = "day" -> today - m.amount
              [] m.unit = "month" -> today - m.amount * DaysPerMonth
              [] OTHER -> today - m.amount * DaysPerYear
  ELSE NaN

SEARCH_ENDPOINT == "https://registry.npmjs.org/-/v1/search"
PACKAGE_ENDPOINT == "https://registry.npmjs.org"

AdapterCall(fn, text, num, raw) == [fn |-> fn, text |-> text, num |-> num, raw |-> raw]

\* searchNpm's `from` and `weights` arguments (Undefined when omitted; a weight
\* can also be null).
SearchArgs(from, weights) == [t |-> "args", s |-> "", n |-> 0, from |-> from, weights |-> weights]
FromInputs == {Undefined, JsNumber(-1), JsNumber(0), JsNumber(5)}
WeightInputs == {Undefined, JsNull, JsNumber(0), JsNumber(2)}
WeightsInputs ==
  {Undefined} \cup [quality : WeightInputs, popularity : WeightInputs, maintenance : WeightInputs]

\* The calls a run can make: text is the query or package name, num the size,
\* the depth, the limit (0 when omitted) or the number of names, raw the
\* repository reference, the `since` argument, includeDevDependencies, or
\* searchNpm's `from` and `weights`.
AdapterCalls ==
  {AdapterCall("searchNpm", q, size, SearchArgs(Undefined, Undefined)) :
     q \in {"react", "  "}, size \in {0, 1, 250, 251}}
  \cup {AdapterCall("searchNpm", "react", 10, SearchArgs(from, weights)) :
          from \in FromInputs, weights \in WeightsInputs}
  \cup {AdapterCall("getReadme", name, 0, Undefined) : name \in {"react", "  "}}
  \cup {AdapterCall("getPackageVersions", name, limit, since) :
          name \in {"react", "  "}, limit \in {-1, 0, 1, 2}, since \in SinceInputs}
  \cup {AdapterCall("getPackageDependencies", name, depth, includeDev) :
          name \in {"react", "  "}, depth \in 0 .. 4,
          includeDev \in {Undefined, JsBoolean(FALSE), JsBoolean(TRUE)}}
  \cup {AdapterCall("comparePackages", "react", n, Undefined) : n \in {0, 1, 10, 11}}
  \cup {AdapterCall("downloadsLast", "react", 0, Undefined)}
  \cup {AdapterCall("fetchGithubRepo", "", 0, raw) :
          raw \in {Undefined, JsString(""), JsString("https://gitlab.com/x/y"), JsString(GithubUrl)}}

\* Mutant: the range checks also refuse the upper boundary values.
ValidationFailureOffByOne(c) ==
  CASE c.fn = "searchNpm" ->
         IF Trim(c.text) = "" THEN JsError("Query must be a non-empty string")
         ELSE IF c.num < 1 \/ c.num >= 250 THEN JsError("size must be between 1 and 250")
         ELSE Undefined
    [] c.fn \in {"getReadme", "getPackageVersions"} ->
         IF Trim(c.text) = "" THEN JsError("Package name is required") ELSE Undefined
    [] c.fn = "getPackageDependencies" ->
         IF Trim(c.text) = "" THEN JsError("Package name is required")
         ELSE IF c.num < 1 \/ c.num >= 3 THEN JsError("depth must be between 1 and 3")
         ELSE Undefined
    [] c.fn = "comparePackages" ->
         IF c.num = 0 THEN JsError("At least one package name is required")
         ELSE IF c.num >= 10 THEN JsError("Maximum 10 packages can be compared at once")
         ELSE Undefined
    [] OTHER -> Undefined

\* The throw of the adapter's argument checks, Undefined when they pass.
ValidationFailure(c) ==
  CASE c.fn = "searchNpm" ->
         IF Trim(c.text) = "" THEN JsError("Query must be a non-empty string")
         ELSE IF c.num < 1 \/ c.num > 250 THEN JsError("size must be between 1 and 250")
         ELSE Undefined
    [] c.fn \in {"getReadme", "getPackageVersions"} ->
         IF Trim(c.text) = "" THEN JsError("Package name is required") ELSE Undefined
    [] c.fn = "getPackageDependencies" ->
         IF Trim(c.text) = "" THEN JsError("Package name is required")
         ELSE IF c.num < 1 \/ c.num > 3 THEN JsError("depth must be between 1 and 3")
         ELSE Undefined
    [] c.fn = "comparePackages" ->
         IF c.num = 0 THEN JsError("At least one package name is required")
         ELSE IF c.num > 10 THEN JsError("Maximum 10 packages can be compared at once")
         ELSE Undefined
    [] OTHER -> Undefined

\* Mutant: `from` is sent whenever it is not negative.
SearchParamsWithFromZero(c) ==
  LET from == OrElse(c.raw.from, JsNumber(0))
      w == c.raw.weights
      weight(name, v) == IF v \in {Undefined, JsNull} THEN <<>> ELSE <<<<name, String(v)>>>>
  IN <<<<"text", Trim(c.text)>>, <<"size", ToString(c.num)>>>>
     \o (IF from.n >= 0 THEN <<<<"from", String(from)>>>> ELSE <<>>)
     \o (IF w = Undefined THEN <<>>
         ELSE weight("quality", w.quality) \o weight("popularity", w.popularity)
              \o weight("maintenance", w.maintenance))

\* url.searchParams of searchNpm: text and size, `from` when above 0, and of a
\* weights object the weights that are neither undefined nor null.
SearchParams(c) ==
  LET from == OrElse(c.raw.from, JsNumber(0))
      w == c.raw.weights
      weight(name, v) == IF v \in {Undefined, JsNull} THEN <<>> ELSE <<<<name, String(v)>>>>
  IN <<<<"text", Trim(c.text)>>, <<"size", ToString(c.num)>>>>
     \o (IF from.n > 0 THEN <<<<"from", String(from)>>>> ELSE <<>>)
     \o (IF w = Undefined THEN <<>>
         ELSE weight("quality", w.quality) \o weight("popularity", w.popularity)
              \o weight("maintenance", w.maintenance))

\* url.toString() for a URL with these search parameters.
UrlToString(base, params) ==
  base \o "?" \o Join([i \in 1 .. Len(params) |-> params[i][1] \o "=" \o params[i][2]], "&")

\* version ? `${base}/${encodeURIComponent(version)}` : base
PackageUrl(safe, version) ==
  IF version = Undefined \/ version.s = "" THEN PACKAGE_ENDPOINT \o "/" \o safe
  ELSE PACKAGE_ENDPOINT \o "/" \o safe \o "/" \o version.s

\* `https://api.npmjs.org/downloads/point/${periods[period]}/${encodeURIComponent(pkg)}`
DownloadsUrl(period, pkg) == "https://api.npmjs.org/downloads/point/last-" \o period \o "/" \o pkg

\* Mutant: getPackageDependencies fetches once per level of depth.
AdapterRequestsPerDepth(c) ==
  CASE c.fn = "searchNpm" -> <<UrlToString(SEARCH_ENDPOINT, SearchParams(c))>>
    [] c.fn \in {"getReadme", "getPackageVersions"} -> <<PackageUrl(Trim(c.text), Undefined)>>
    [] c.fn = "getPackageDependencies" -> [i \in 1 .. c.num |-> PackageUrl(Trim(c.text), Undefined)]
    [] c.fn = "comparePackages" -> [i \in 1 .. c.num |-> PACKAGE_ENDPOINT \o "/" \o Trim(c.text)]
    [] c.fn = "downloadsLast" -> <<DownloadsUrl("week", c.text)>>
    [] OTHER ->
         <<"https://api.github.com/repos/" \o ParseGithubRepo(c.raw).owner \o "/" \o ParseGithubRepo(c.raw).repo>>

\* The URLs the adapter hands to httpGet before its first suspension.
AdapterRequests(c) ==
  CASE c.fn = "searchNpm" -> <<UrlToString(SEARCH_ENDPOINT, SearchParams(c))>>
    [] c.fn \in {"getReadme", "getPackageVersions", "getPackageDependencies"} ->
         <<PackageUrl(Trim(c.text), Undefined)>>
    [] c.fn = "comparePackages" -> [i \in 1 .. c.num |-> PACKAGE_ENDPOINT \o "/" \o Trim(c.text)]
    [] c.fn = "downloadsLast" -> <<DownloadsUrl("week", c.text)>>
    [] OTHER ->
         <<"https://api.github.com/repos/" \o ParseGithubRepo(c.raw).owner \o "/" \o ParseGithubRepo(c.raw).repo>>

StatusText(status) ==
  CASE status = 200 -> "OK" [] status = 404 -> "Not Found" [] OTHER -> "Internal Server Error"

\* The text each adapter puts before the status in its throw.
FailurePrefix(fn) ==
  CASE fn = "searchNpm" -> "npm search failed: "
    [] fn = "downloadsLast" -> "downloads fetch failed: "
    [] OTHER -> "npm package fetch failed: "

\* Mutant: the throw names the failed call but not the status.
StatusFailureWithoutStatus(fn, resp) == JsError(FailurePrefix(fn) \o "request failed")

\* throw new Error(`... failed: ${res.status} ${res.statusText}`)
StatusFailure(fn, resp) == JsError(FailurePrefix(fn) \o ToString(resp.status) \o " " \o resp.statusText)

\* Mutant: the degraded object also carries a stars field.
DegradedRepoWithStars(parsed) ==
  [keys |-> {"fullName", "url", "stars"},
   fullName |-> JsString(parsed.owner \o "/" \o parsed.repo),
   url |-> JsString("https://github.com/" \o parsed.owner \o "/" \o parsed.repo)]

\* fetchGithubRepo on a non-2xx answer: { fullName, url } and nothing else.
DegradedRepo(parsed) ==
  [keys |-> {"fullName", "url"},
   fullName |-> JsString(parsed.owner \o "/" \o parsed.repo),
   url |-> JsString("https://github.com/" \o parsed.owner \o "/" \o parsed.repo)]

InitAdapters ==
  /\ HttpIdle
  /\ CacheIdle
  /\ CompareIdle
  /\ ToolsIdle
  /\ KeyIdle
  /\ adCall \in AdapterCalls
  /\ adPc = "called"
  /\ adReqs = <<>>
  /\ adResp = NoResponse
  /\ adOut = Undefined

\* The adapter is called and runs to its first suspension: the argument checks
\* throw, or fetchGithubRepo returns undefined for a reference it cannot parse,
\* or the request goes to httpGet.
AdapterStart ==
  /\ adPc = "called"
  /\ IF ValidationFailure(adCall) # Undefined
       THEN /\ adPc' = "threw"
            /\ adOut' = ValidationFailure(adCall)
            /\ UNCHANGED adReqs
       ELSE IF adCall.fn = "fetchGithubRepo" /\ ParseGithubRepo(adCall.raw) = Undefined
         THEN /\ adPc' = "returned"
              /\ adOut' = Undefined
              /\ UNCHANGED adReqs
         ELSE /\ adPc' = "awaiting"
              /\ adReqs' = AdapterRequests(adCall)
              /\ UNCHANGED adOut
  /\ UNCHANGED <<adCall, adResp>>
  /\ UNCHANGED nonAdapterVars

\* The registry documents getPackageVersions can read: three versions in the
\* map's key order, each with any date string or none ("") in the `time` map.
VersionNames == <<"1.0.0", "2.0.0", "3.0.0">>
VersionBodies ==
  { [name |-> JsString("react"), versions |-> VersionNames, time |-> tm, latest |-> "3.0.0"] :
      tm \in [{"1.0.0", "2.0.0", "3.0.0"} -> DateStrings \cup {""}] }

\* The loop over Object.entries(versions): entries without a date string are
\* skipped, and so are those dated before sinceDate.
VersionList(body, sinceDate) ==
  LET keep(ver) == /\ body.time[ver] # ""
                   /\ ~(sinceDate # NaN /\ GetTime(body.time[ver]) # NaN /\ GetTime(body.time[ver]) < sinceDate)
      kept == SelectSeq(body.versions, keep)
  IN [i \in 1 .. Len(kept) |->
        [version |-> kept[i], date |-> body.time[kept[i]],
         tags |-> IF kept[i] = body.latest THEN <<"latest">> ELSE <<>>]]

\* (a, b) => new Date(b.date).getTime() - new Date(a.date).getTime() is below 0:
\* a sorts before b.  With a NaN operand the difference is NaN, which is not.
SortsBefore(a, b) ==
  GetTime(a.date) # NaN /\ GetTime(b.date) # NaN /\ GetTime(b.date) - GetTime(a.date) < 0

RECURSIVE InsertSorted(_, _)
\* Insert e behind the entries that do not sort after it (the sort is stable).
InsertSorted(sorted, e) ==
  IF sorted = <<>> THEN <<e>>
  ELSE IF SortsBefore(e, sorted[Len(sorted)])
         THEN Append(InsertSorted(SubSeq(sorted, 1, Len(sorted) - 1), e), sorted[Len(sorted)])
         ELSE Append(sorted, e)

RECURSIVE StableSort(_)
StableSort(list) ==
  IF list = <<>> THEN <<>>
  ELSE InsertSorted(StableSort(SubSeq(list, 1, Len(list) - 1)), list[Len(list)])

Reorderings(list) ==
  { [i \in 1 .. Len(list) |-> list[f[i]]] :
      f \in {g \in [1 .. Len(list) -> 1 .. Len(list)] : \A i, j \in 1 .. Len(list) : g[i] = g[j] => i = j} }

\* versionList.sort(comparator): the stable sort when the comparator is
\* consistent; with a NaN date among several entries it is not, and the order
\* is whatever the engine's sort leaves.
SortOutcomes(list) ==
  IF Len(list) >= 2 /\ \E i \in 1 .. Len(list) : GetTime(list[i].date) = NaN
    THEN Reorderings(list)
    ELSE {StableSort(list)}

\* limit && limit > 0 ? versionList.slice(0, limit) : versionList
Limited(list, limit) ==
  IF limit > 0 THEN SubSeq(list, 1, IF limit < Len(list) THEN limit ELSE Len(list)) ELSE list

\* The manifests getPackageDependencies can read: the dependencies and
\* devDependencies maps as their entries in key order, or no such map.
JsMap(entries) == [t |-> "object", entries |-> entries]
JsArray(items) == [t |-> "array", items |-> items]
DepBodies ==
  { [name |-> JsString("react"), version |-> ver, dependencies |-> deps, devDependencies |-> devDeps] :
      ver \in {Undefined, JsString("18.2.0")},
      deps \in {Undefined, JsMap(<<>>), JsMap(<<<<"lodash", "^4.0.0">>, <<"react", "^18.0.0">>>>)},
      devDeps \in {Undefined, JsMap(<<>>), JsMap(<<<<"vitest", "^1.0.0">>>>)} }

\* Object.entries(map).map(([name, ver]) => ({ name, version: ver }))
DependencyInfos(map) ==
  JsArray([i \in 1 .. Len(map.entries) |->
             [keys |-> {"name", "version"}, name |-> map.entries[i][1], version |-> map.entries[i][2]]])

\* The object getPackageDependencies returns: its own keys and their values.
DependenciesResult(c, body) ==
  LET includeDevDependencies == Truthy(OrElse(c.raw, JsBoolean(FALSE)))
      deps == OrElse(body.dependencies, JsMap(<<>>))
      devDeps == IF includeDevDependencies THEN OrElse(body.devDependencies, JsMap(<<>>)) ELSE JsMap(<<>>)
  IN [fn |-> c.fn,
      keys |-> {"name", "version", "dependencies", "devDependencies"},
      name |-> OrElse(body.name, JsString(Trim(c.text))),
      version |-> OrElse(body.version, JsString("latest")),
      dependencies |-> DependencyInfos(deps),
      devDependencies |-> IF includeDevDependencies THEN DependencyInfos(devDeps) ELSE Undefined]

\* The bodies res.json() can resolve with, per adapter.
PlainBody == [name |-> JsString("react")]
Bodies(fn) ==
  CASE fn = "getPackageVersions" -> VersionBodies
    [] fn = "getPackageDependencies" -> DepBodies
    [] OTHER -> {PlainBody}

\* What the adapter returns for a body; several values where the sort leaves
\* the order open.
AdapterResults(c, body, today) ==
  CASE c.fn = "getPackageVersions" ->
         { [fn |-> c.fn, name |-> body.name, versions |-> Limited(sorted, c.num)] :
             sorted \in SortOutcomes(VersionList(body, SinceDate(c.raw, today))) }
    [] c.fn = "getPackageDependencies" -> {DependenciesResult(c, body)}
    [] OTHER -> { [fn |-> c.fn, name |-> body.name] }

\* await httpGet(url) resolves: a non-2xx status makes the adapter throw
\* (fetchGithubRepo: return the degraded object), a 2xx one makes it read the body.
HttpCompletes(status) ==
  /\ adPc = "awaiting"
  /\ adCall.fn # "comparePackages"
  /\ adResp' = [NoResponse EXCEPT !.status = status, !.statusText = StatusText(status)]
  /\ IF ResponseOk(status)
       THEN adPc' = "readingBody" /\ UNCHANGED adOut
       ELSE IF adCall.fn = "fetchGithubRepo"
         THEN adPc' = "returned" /\ adOut' = DegradedRepo(ParseGithubRepo(adCall.raw))
         ELSE adPc' = "threw" /\ adOut' = StatusFailure(adCall.fn, adResp')
  /\ UNCHANGED <<adCall, adReqs>>
  /\ UNCHANGED nonAdapterVars

\* await httpGet(url) rejects: the adapter has no catch, the error is its own.
HttpThrows(e) ==
  /\ adPc = "awaiting"
  /\ adCall.fn # "comparePackages"
  /\ adPc' = "threw"
  /\ adOut' = e
  /\ UNCHANGED <<adCall, adReqs, adResp>>
  /\ UNCHANGED nonAdapterVars

\* await res.json() resolves and the adapter maps the body to its result.
BodyParsed(body, today) ==
  /\ adPc = "readingBody"
  /\ body \in Bodies(adCall.fn)
  /\ adResp' = [adResp EXCEPT !.body = body, !.today = today]
  /\ adPc' = "returned"
  /\ adOut' \in AdapterResults(adCall, body, today)
  /\ UNCHANGED <<adCall, adReqs>>
  /\ UNCHANGED nonAdapterVars

\* await res.json() rejects.
BodyRejects ==
  /\ adPc = "readingBody"
  /\ adPc' = "threw"
  /\ adOut' = JsError("Unexpected token < in JSON at position 0")
  /\ UNCHANGED <<adCall, adReqs, adResp>>
  /\ UNCHANGED nonAdapterVars

NextAdapters ==
  \/ AdapterStart
  \/ \E status \in Statuses : HttpCompletes(status)
  \/ \E e \in {JsError("ECONNRESET"), AbortError} : HttpThrows(e)
  \/ \E body \in VersionBodies \cup DepBodies \cup {PlainBody}, today \in Todays : BodyParsed(body, today)
  \/ BodyRejects

SpecAdapters == InitAdapters /\ [][NextAdapters]_vars

(***************************************************************************)
(* The requests behind a tool call or a resource read: what its adapters   *)
(* hand to httpGet on a cache miss, as far as the arguments decide it      *)
(* (URL encoding left out: it maps different names to different URLs).     *)
(***************************************************************************)
UpstreamRequests(c) ==
  CASE c.tool = "search_npm" ->
         AdapterRequests(AdapterCall("searchNpm", c.query, OrElse(c.size, JsNumber(10)).n,
                                     SearchArgs(c.from, c.weights)))
    [] c.tool = "search_by_keywords" ->
         AdapterRequests(AdapterCall("searchNpm",
           Join(c.keywords, IF OrElse(c.operator, JsString("AND")) = JsString("AND") THEN " " ELSE " OR "),
           OrElse(c.size, JsNumber(10)).n, SearchArgs(Undefined, Undefined)))
    [] c.tool \in {"get_readme", "get_package_dependencies"} -> <<PackageUrl(Trim(c.name), c.version)>>
    [] c.tool = "get_package_info" -> <<PackageUrl(Trim(c.name), c.version), DownloadsUrl("week", c.name)>>
    [] c.tool = "get_downloads" -> <<DownloadsUrl(OrElse(c.period, JsString("week")).s, c.name)>>
    [] c.tool = "get_package_versions" -> <<PackageUrl(Trim(c.name), Undefined)>>
    [] c.tool = "compare_packages" ->
         [i \in 1 .. Len(c.packages) |->
            <<PackageUrl(Trim(SortNames(c.packages)[i]), Undefined),
              DownloadsUrl("week", Trim(SortNames(c.packages)[i]))>>]
    [] OTHER -> <<PackageUrl(Trim(c.name), Undefined), DownloadsUrl("week", c.name),
                  PackageUrl(Trim(c.name), Undefined)>>

(***************************************************************************)
(* Calls of key() (src/cache.ts) on two part lists.                        *)
(***************************************************************************)
MaxKeyCalls == 3

\* The parts the callers pass: strings (one holding the separator), numbers
\* and a plain object.
KeyPartInputs ==
  {JsString("a"), JsString("a|a"), JsString("5"), JsNumber(5), JsNumber(1), JsNumber(2), JsonObject("{}")}

\* The part lists: one or two parts.
KeyPartLists == {<<a>> : a \in KeyPartInputs} \cup {<<a, b>> : a, b \in KeyPartInputs}

InitKey ==
  /\ HttpIdle
  /\ CacheIdle
  /\ CompareIdle
  /\ ToolsIdle
  /\ AdaptersIdle
  /\ keyArgs \in {<<x, y>> : x, y \in KeyPartLists}
  /\ keyOut = <<>>

\* key(parts) is called with the n-th list and returns its string.
KeyCall(n) ==
  /\ Len(keyOut) < MaxKeyCalls
  /\ keyOut' = Append(keyOut, [arg |-> n, str |-> Key(keyArgs[n])])
  /\ UNCHANGED keyArgs
  /\ UNCHANGED nonKeyVars

NextKey == \E n \in {1, 2} : KeyCall(n)

SpecKey == InitKey /\ [][NextKey]_vars

(***************************************************************************)
(* Claims about httpGet, checked under SpecHttp.                           *)
(***************************************************************************)
LastFetch == fetchLog[Len(fetchLog)]

\* C3: httpGet issues at most max(0, retries)+1 fetches (2 by default); every
\* fetch but the last one failed by rejection or abort; a fetch that resolves is
\* the last one and its response is what httpGet returns.
C3_AtMostRetriesPlusOneAttempts ==
  LET r == IF retriesOpt = Undefined THEN 1 ELSE retriesOpt.n
      bound == (IF r > 0 THEN r ELSE 0) + 1
  IN /\ Len(fetchLog) <= bound
     /\ retriesOpt = Undefined => Len(fetchLog) <= 2
     /\ \A i \in 1 .. Len(fetchLog) - 1 : fetchLog[i].outcome \in {"rejected", "aborted"}
     /\ \A i \in 1 .. Len(fetchLog) :
          fetchLog[i].outcome = "resolved" =>
            /\ i = Len(fetchLog)
            /\ hpc = "returned"
            /\ hret = Returned(fetchLog[i].status, i - 1)

\* Witness: with retries 2, two failed attempts (one aborted by its timer) and a
\* third that resolves.
C3_Witness ==
  /\ retriesOpt = JsNumber(2)
  /\ Len(fetchLog) = 3
  /\ fetchLog[1].outcome = "aborted"
  /\ fetchLog[2].outcome = "rejected"
  /\ hpc = "returned"

\* C4: a fetch that completes with any status, 2xx or not, ends httpGet by
\* returning that response: nothing is thrown and no further fetch is issued, so
\* a first attempt that completes leaves exactly one fetch.
C4_StatusReturnedAsIs ==
  /\ (Len(fetchLog) >= 1 /\ fetchLog[1].outcome = "resolved") =>
       /\ Len(fetchLog) = 1
       /\ hret.kind = "response"
       /\ hret.status = fetchLog[1].status
       /\ sleepLog = <<>>
  /\ hret.kind = "throw" => \A i \in 1 .. Len(fetchLog) : fetchLog[i].outcome # "resolved"

\* Witness: the first attempt completed with 404 and httpGet returned it.
C4_Witness ==
  /\ Len(fetchLog) = 1
  /\ fetchLog[1] = [outcome |-> "resolved", status |-> 404, err |-> Undefined]
  /\ hret = Returned(404, 0)

\* C5: when httpGet throws, it throws an Error: the failure of the last attempt
\* itself when that is an Error, else a new Error whose message is the string
\* form of that last failure.
C5_ThrowsLastFailureAsError ==
  hpc = "thrown" =>
    /\ hret.kind = "throw"
    /\ hret.err.t = "Error"
    /\ LastFetch.err.t = "Error" => hret.err = LastFetch.err
    /\ LastFetch.err.t = "string" => hret.err.s = LastFetch.err.s
    /\ LastFetch.err.t = "number" => hret.err.s = ToString(LastFetch.err.n)
    /\ hret.err.s # ""

\* Witness: two attempts failed differently, the last one with a value that is
\* not an Error, and httpGet threw.
C5_Witness ==
  /\ hpc = "thrown"
  /\ Len(fetchLog) = 2
  /\ fetchLog[1].err = JsError("ECONNRESET")
  /\ fetchLog[2].err = JsString("boom")

\* C6: every moment of an adapter's exchange with upstream, the wait for the
\* response and the wait for its body alike, is covered by the armed timeout
\* timer of the current attempt, so that a stall is aborted when it fires.
C6_ExchangeBoundedByTimeout ==
  (hpc = "fetching" \/ apc = "readingBody") => attempt \in timers

(***************************************************************************)
(* Claims about the cache, checked under SpecCache.                        *)
(***************************************************************************)
\* The ttl the latest cacheSet of key k asked for, the default when it gave none.
AskedTtl(k) ==
  IF setAt[k].ttl = Undefined
    THEN (IF envTtl = Undefined THEN 60000 ELSE envTtl.n)
    ELSE setAt[k].ttl.n

\* C7 (as amended): a cacheGet directly after a cacheSet of the same key returns
\* the value set; and a cacheGet made more than ttl ms after the latest cacheSet
\* of its key, for a ttl > 0 (the default TTL when the set gave none), returns
\* undefined.
C7_RoundTripAndExpiry ==
  lastOp.op = "get" =>
    /\ (prevOp.op = "set" /\ prevOp.key = lastOp.key) => lastOp.ret = prevOp.val
    /\ ( /\ setAt[lastOp.key] # NoSet
         /\ AskedTtl(lastOp.key) > 0
         /\ now - setAt[lastOp.key].at > AskedTtl(lastOp.key) ) => lastOp.ret = Undefined

\* Witness: a set without ttl under the default configuration, 60001 ms pass,
\* and the get of that key misses.
C7_Witness ==
  /\ lastOp.op = "get"
  /\ envTtl = Undefined
  /\ setAt[lastOp.key] # NoSet
  /\ setAt[lastOp.key].ttl = Undefined
  /\ now - setAt[lastOp.key].at = 60001
  /\ lastOp.ret = Undefined

\* C7 as stated: for every ttl, a cacheGet returns undefined once ttl ms have
\* elapsed since the latest cacheSet of its key.
C7_ExpiresOnceTtlElapsed ==
  lastOp.op = "get" =>
    /\ (prevOp.op = "set" /\ prevOp.key = lastOp.key) => lastOp.ret = prevOp.val
    /\ ( /\ setAt[lastOp.key] # NoSet
         /\ now > setAt[lastOp.key].at
         /\ now - setAt[lastOp.key].at >= AskedTtl(lastOp.key) ) => lastOp.ret = Undefined

\* C8: the cache never holds more entries than the configured maximum (500 when
\* CACHE_MAX is unset); a cacheSet removes at most one other key, only when the
\* key is new and the cache is full, and the key it removes is the one whose
\* latest use (cacheSet or cacheGet hit) is the oldest.
C8_BoundedLeastRecentlyUsed ==
  LET max == IF envMax = Undefined THEN 500 ELSE envMax.n
      gone == lastOp.before \ KeysOf(cache)
  IN /\ Len(cache) <= max
     /\ Cardinality(KeysOf(cache)) = Len(cache)
     /\ lastOp.op = "set" =>
          /\ lastOp.key \in KeysOf(cache)
          /\ Cardinality(gone) <= 1
          /\ gone # {} =>
               /\ lastOp.key \notin lastOp.before
               /\ Cardinality(lastOp.before) = max
               /\ \A g \in gone, j \in lastOp.before \ gone : lastUse[g] < lastUse[j]

\* Witness: with room for two, k1 and k2 were set, k1 was read, and the set of
\* k3 removed k2 (the older insertion k1 stays, its read counted as a use).
C8_Witness ==
  /\ envMax = JsNumber(2)
  /\ lastOp.op = "set"
  /\ lastOp.key = "k3"
  /\ opCount = 4
  /\ setAt["k1"].val = Payload("v", 1)
  /\ lastUse["k1"] = 3
  /\ lastOp.before = {"k1", "k2"}
  /\ KeysOf(cache) = {"k1", "k3"}

(***************************************************************************)
(* Claims about comparePackages, checked under SpecCompare.                *)
(***************************************************************************)
\* The message the callback of packages[i] failed with, as the entry reports it.
OwnFailureMessage(i) ==
  IF Trim(packages[i]) = "" THEN "Package name cannot be empty" ELSE task[i].metaErr.s

\* C1: a call with 1..10 names never throws, and when it resolves, the entry of
\* each name that is blank or whose metadata fetch failed is exactly {name, error}
\* with that name and its own failure, while every other name's entry has no
\* `error` and carries the fields of its own registry document, whatever
\* happened to the other names.
C1_FailuresIsolatedPerPackage ==
  /\ (Len(packages) >= 1 /\ Len(packages) <= 10) => cpc # "thrown"
  /\ cpc = "resolved" =>
       \A i \in Indices :
         IF Trim(packages[i]) = "" \/ task[i].metaErr # Undefined
           THEN /\ results[i].keys = {"name", "error"}
                /\ results[i].name = JsString(packages[i])
                /\ results[i].error.t = "string"
                /\ InstanceOfError(task[i].metaErr) => results[i].error.s = OwnFailureMessage(i)
           ELSE /\ "error" \notin results[i].keys
                /\ {"name", "version", "downloads", "stars", "repository"} \subseteq results[i].keys
                /\ results[i].name = task[i].meta.name
                /\ results[i].version = task[i].meta.version
                /\ results[i].repository = task[i].meta.repository
                /\ results[i].downloads = task[i].downloads
                /\ results[i].stars = task[i].gh.stars

\* Witness: of two names the first one's metadata fetch failed and the second
\* one's entry is fully populated.
C1_Witness ==
  /\ cpc = "resolved"
  /\ Len(packages) = 2
  /\ Trim(packages[1]) # ""
  /\ task[1].metaErr = JsError("ECONNRESET")
  /\ results[1].keys = {"name", "error"}
  /\ "error" \notin results[2].keys
  /\ results[2].downloads = JsNumber(1000)
  /\ results[2].stars = JsNumber(5)

\* C2: the call resolves only after every callback has settled, with exactly one
\* entry per input name, entry i being the one computed for input i.
C2_ResultsInInputOrder ==
  cpc = "resolved" =>
    /\ Len(results) = Len(packages)
    /\ Len(doneOrder) = Len(packages)
    /\ \A i \in Indices : task[i].pc = "done" /\ results[i].idx = i /\ results[i] = task[i].entry

\* Witness: two names resolved, the second one's callback having settled first.
C2_Witness ==
  /\ cpc = "resolved"
  /\ doneOrder = <<2, 1>>
  /\ "error" \notin results[1].keys
  /\ "error" \notin results[2].keys

(***************************************************************************)
(* Claims about the tool handlers over the shared cache, checked under     *)
(* SpecTools.                                                              *)
(***************************************************************************)
\* The latest cacheSet under key k is still within its ttl.
WithinTtl(k) == AskedTtl(k) = 0 \/ now - setAt[k].at <= AskedTtl(k)

\* C9: under every interleaving of the invocations, what a cacheGet returned
\* is undefined or the whole payload one other invocation passed to cacheSet
\* under the same key; the cacheGet just made returned nothing else than the
\* payload of the latest cacheSet of its key, still within its ttl and still in
\* the store.
C9_GetReturnsOneWholePayload ==
  /\ \A i \in 1 .. Len(inv) :
       inv[i].cached # Undefined =>
         \E j \in 1 .. Len(inv) :
           /\ j # i
           /\ inv[j].wrote
           /\ inv[j].key = inv[i].key
           /\ inv[j].result.payload = inv[i].cached
  /\ (lastOp.op = "get" /\ lastOp.ret # Undefined) =>
       /\ setAt[lastOp.key] # NoSet
       /\ lastOp.ret = setAt[lastOp.key].val
       /\ WithinTtl(lastOp.key)
       /\ lastOp.key \in lastOp.before
       /\ lastOp.key \in KeysOf(cache)

\* Witness: two invocations missed on one key, the first one stored its payload,
\* and a third one's cacheGet returns that payload while the second one still
\* awaits its adapter.
C9_Witness ==
  /\ Len(inv) = 3
  /\ inv[1].wrote
  /\ inv[2].pc = "awaiting"
  /\ inv[2].key = inv[1].key
  /\ inv[3].key = inv[1].key
  /\ lastOp.op = "get"
  /\ lastOp.ret = inv[1].result.payload
  /\ inv[3].cached = inv[1].result.payload

\* The cache holds a live entry under key k.
LiveEntry(k) == k \in KeysOf(cache) /\ setAt[k] # NoSet /\ WithinTtl(k)

\* C10: a handler called while the cache holds a live entry under its key
\* returns content made from that entry's payload, calls no adapter and leaves
\* the entries of the cache as they are; called otherwise it calls its adapter
\* and awaits it; and a handler that returns content after a miss has called
\* its adapters and stored that payload under its key in the same step.
C10_HitAnswersFromCacheMissStores ==
  [][ /\ Len(inv') = Len(inv) + 1 =>
           LET r == inv'[Len(inv')]
           IN IF LiveEntry(r.key)
                THEN /\ r.pc = "done"
                     /\ ~r.result.isError
                     /\ r.result.payload = setAt[r.key].val
                     /\ r.adapters = <<>>
                     /\ setAt' = setAt
                     /\ {cache'[x] : x \in 1 .. Len(cache')} = {cache[x] : x \in 1 .. Len(cache)}
                ELSE /\ r.pc = "awaiting"
                     /\ Len(r.adapters) = 1
      /\ \A i \in 1 .. Len(inv) :
           (inv[i].pc = "awaiting" /\ inv'[i].pc = "done" /\ ~inv'[i].result.isError) =>
             /\ inv[i].adapters # <<>>
             /\ inv'[i].result.payload # Undefined
             /\ setAt'[inv[i].key].val = inv'[i].result.payload
             /\ setAt'[inv[i].key].at = now
             /\ \E x \in 1 .. Len(cache') :
                  cache'[x].key = inv[i].key /\ cache'[x].val = inv'[i].result.payload
    ]_vars

\* Witness: get_package_info missed, awaited its three adapters and stored its
\* payload; a second call with the same arguments was answered from it.
C10_Witness ==
  /\ tool = "get_package_info"
  /\ Len(inv) >= 2
  /\ inv[1].wrote
  /\ Len(inv[1].adapters) = 3
  /\ inv[2].pc = "done"
  /\ inv[2].adapters = <<>>
  /\ inv[2].result.payload = inv[1].result.payload
  /\ ~inv[2].wrote

(***************************************************************************)
(* Claims about the adapters, checked under SpecAdapters.                  *)
(***************************************************************************)
\* The call's arguments are ones the adapter must refuse.
MalformedCall ==
  \/ adCall.fn = "searchNpm" /\ (adCall.text = "  " \/ adCall.num < 1 \/ adCall.num > 250)
  \/ adCall.fn \in {"getReadme", "getPackageVersions"} /\ adCall.text = "  "
  \/ adCall.fn = "getPackageDependencies" /\ (adCall.text = "  " \/ adCall.num < 1 \/ adCall.num > 3)
  \/ adCall.fn = "comparePackages" /\ (adCall.num = 0 \/ adCall.num > 10)

\* C11: an adapter called with a blank query or name, a size outside 1..250, a
\* depth outside 1..3, or 0 or more than 10 names throws an Error without having
\* handed any request to httpGet; called with any other arguments, the
\* boundary values included, it is not refused and its request goes out.
C11_ValidationBeforeNetwork ==
  adPc # "called" =>
    IF MalformedCall
      THEN adPc = "threw" /\ InstanceOfError(adOut) /\ adReqs = <<>> /\ adResp = NoResponse
      ELSE adCall.fn # "fetchGithubRepo" => adReqs # <<>>

\* Witness: comparePackages with 11 names has thrown and no request went out.
C11_Witness ==
  /\ adCall.fn = "comparePackages"
  /\ adCall.num = 11
  /\ adPc = "threw"
  /\ adOut = JsError("Maximum 10 packages can be compared at once")
  /\ adReqs = <<>>

\* C12: once the exchange of searchNpm, getReadme, getPackageVersions,
\* getPackageDependencies or downloadsLast has completed with a non-2xx status,
\* the adapter has thrown an Error whose message ends with the status code and
\* the status text; it has returned nothing.
C12_NonOkStatusThrows ==
  ( /\ adCall.fn \in {"searchNpm", "getReadme", "getPackageVersions", "getPackageDependencies",
                      "downloadsLast"}
    /\ adResp.status # 0
    /\ ~(adResp.status >= 200 /\ adResp.status <= 299) ) =>
      /\ adPc = "threw"
      /\ InstanceOfError(adOut)
      /\ \E prefix \in {"npm search failed: ", "npm package fetch failed: ", "downloads fetch failed: "} :
           adOut.s = prefix \o ToString(adResp.status) \o " " \o adResp.statusText

\* Witness: downloadsLast met a 500 and threw.
C12_Witness ==
  /\ adCall.fn = "downloadsLast"
  /\ adResp.status = 500
  /\ adPc = "threw"
  /\ adOut = JsError("downloads fetch failed: 500 Internal Server Error")

\* C19: fetchGithubRepo called with no reference, or with one that is not a
\* GitHub owner/repo, returns undefined and hands nothing to httpGet; called
\* with a GitHub reference and answered with a non-2xx status it returns the
\* object with exactly fullName "owner/repo" and url "https://github.com/owner/repo".
C19_GithubDegrades ==
  (adCall.fn = "fetchGithubRepo" /\ adPc # "called") =>
    IF adCall.raw \in {Undefined, JsString(""), JsString("https://gitlab.com/x/y")}
      THEN adPc = "returned" /\ adOut = Undefined /\ adReqs = <<>>
      ELSE (adResp.status # 0 /\ ~(adResp.status >= 200 /\ adResp.status <= 299)) =>
             /\ adPc = "returned"
             /\ adOut = [keys |-> {"fullName", "url"},
                         fullName |-> JsString("facebook/react"),
                         url |-> JsString("https://github.com/facebook/react")]

\* Witness: the GitHub API answered 404 for facebook/react and the call returned.
C19_Witness ==
  /\ adCall.fn = "fetchGithubRepo"
  /\ adCall.raw = JsString("git+https://github.com/facebook/react.git")
  /\ adResp.status = 404
  /\ adPc = "returned"
  /\ adReqs = <<"https://api.github.com/repos/facebook/react">>

\* The cut-off a `since` argument stands for: the date it names, or the day of
\* the call minus the span it names; NaN when it is neither, or not given.
SinceCutOff ==
  LET since == adCall.raw
      today == adResp.today
  IN CASE since = JsString("2021-01-01T00:00:00.000Z") -> 200
       [] since = JsString("1 year") -> today - 100
       [] since = JsString("2 YEARS") -> today - 200
       [] since = JsString(" 30 days ") -> today - 30
       [] since = JsString("1 month") -> today - 10
       [] OTHER -> NaN

\* The versions of the document that have a date string and are not dated
\* before the `since` date.
EligibleVersions ==
  LET cut == SinceCutOff
  IN { v \in {"1.0.0", "2.0.0", "3.0.0"} :
         /\ adResp.body.time[v] # ""
         /\ (cut = NaN \/ GetTime(adResp.body.time[v]) = NaN \/ GetTime(adResp.body.time[v]) >= cut) }

\* C20: for every registry document, the list getPackageVersions returns is in
\* non-increasing order of publish time, holds each eligible version once and
\* nothing else when there is no limit, and with a limit > 0 holds the newest
\* `limit` of them.
C20_VersionsNewestFirst ==
  (adCall.fn = "getPackageVersions" /\ adPc = "returned") =>
    LET L == adOut.versions
        T(i) == GetTime(L[i].date)
        listed == {L[i].version : i \in 1 .. Len(L)}
    IN /\ \A i, j \in 1 .. Len(L) : (i < j /\ T(i) # NaN /\ T(j) # NaN) => T(i) >= T(j)
       /\ Cardinality(listed) = Len(L)
       /\ listed \subseteq EligibleVersions
       /\ adCall.num = 0 => listed = EligibleVersions
       /\ adCall.num > 0 =>
            /\ Len(L) = (IF adCall.num < Cardinality(EligibleVersions) THEN adCall.num
                         ELSE Cardinality(EligibleVersions))
            /\ \A v \in EligibleVersions \ listed, i \in 1 .. Len(L) :
                 (GetTime(adResp.body.time[v]) # NaN /\ T(i) # NaN) => GetTime(adResp.body.time[v]) <= T(i)

\* date < sinceDate on two times: false when either is no date.
Earlier(a, b) == a # NaN /\ b # NaN /\ a < b

\* C21: with a `since` that is a date or a relative span, no version
\* getPackageVersions returns was published before the cut-off, and unless the
\* limit cut the list short every version with a timestamp at or after the
\* cut-off is returned; with a `since` that is neither (or none), every version
\* with a timestamp is returned unless the limit cut the list short; and once
\* the body is read the call returns, it does not throw.
C21_SinceFilters ==
  (adCall.fn = "getPackageVersions" /\ adResp.today # 0) =>
    /\ adPc = "returned"
    /\ LET L == adOut.versions
           time == adResp.body.time
           listed == {L[i].version : i \in 1 .. Len(L)}
           timed == {v \in DOMAIN time : time[v] # ""}
           atOrAfter == {v \in timed : GetTime(time[v]) # NaN /\ GetTime(time[v]) >= SinceCutOff}
           whole == adCall.num <= 0 \/ Len(L) < adCall.num
       IN IF SinceCutOff # NaN
            THEN /\ \A i \in 1 .. Len(L) : ~Earlier(GetTime(L[i].date), SinceCutOff)
                 /\ whole => atOrAfter \subseteq listed
            ELSE whole => listed = timed

\* Witness: called with "2 YEARS" on day 350, against versions of 2020, 2021
\* and 2022, the call returned the 2022 and the 2021 version.
C21_Witness ==
  /\ adCall.fn = "getPackageVersions"
  /\ adCall.raw = JsString("2 YEARS")
  /\ adCall.num = 0
  /\ adPc = "returned"
  /\ adResp.today = 350
  /\ adResp.body.time = [v \in {"1.0.0", "2.0.0", "3.0.0"} |->
                           CASE v = "1.0.0" -> "2020-01-01T00:00:00.000Z"
                             [] v = "2.0.0" -> "2021-01-01T00:00:00.000Z"
                             [] OTHER -> "2022-01-01T00:00:00.000Z"]
  /\ Len(adOut.versions) = 2
  /\ adOut.versions[1].version = "3.0.0"
  /\ adOut.versions[2].version = "2.0.0"

\* C22: getPackageVersions called with a limit below 1 throws an Error without
\* having handed any request to httpGet (a limit of 0 is also how the model
\* writes a call without limit, so the formula speaks of the negative one).
C22_LimitValidatedBeforeNetwork ==
  (adCall.fn = "getPackageVersions" /\ adCall.num < 0 /\ adPc # "called") =>
    adPc = "threw" /\ InstanceOfError(adOut) /\ adReqs = <<>>

C24_DevDependenciesKeyOnlyWhenAsked ==
  (adCall.fn = "getPackageDependencies" /\ adPc = "returned") =>
    LET asked == adCall.raw = JsBoolean(TRUE)
    IN /\ "devDependencies" \in adOut.keys <=> asked
       /\ (asked /\ adResp.body.devDependencies \in {Undefined, JsMap(<<>>)}) =>
            adOut.devDependencies = JsArray(<<>>)

\* str has sub as a substring.
Contains(str, sub) ==
  \E i \in 1 .. Len(str) - Len(sub) + 1 : SubSeq(str, i, i + Len(sub) - 1) = sub

\* C25: the one URL searchNpm hands to httpGet has a `from` parameter exactly
\* when from is above 0, and a quality, popularity or maintenance parameter
\* exactly when a weights object was given and holds that weight as neither
\* undefined nor null; a parameter that is there carries the value given.
C25_SearchParamsOnlyWhenGiven ==
  (adCall.fn = "searchNpm" /\ adReqs # <<>>) =>
    LET url == adReqs[1]
        from == adCall.raw.from
        weights == adCall.raw.weights
        given(name) == weights # Undefined /\ weights[name] \notin {Undefined, JsNull}
    IN /\ Len(adReqs) = 1
       /\ Contains(url, "from=") <=> (from # Undefined /\ from.n > 0)
       /\ (from # Undefined /\ from.n > 0) => Contains(url, "&from=" \o ToString(from.n))
       /\ \A name \in {"quality", "popularity", "maintenance"} :
            /\ Contains(url, name \o "=") <=> given(name)
            /\ given(name) => Contains(url, "&" \o name \o "=" \o ToString(weights[name].n))

\* Witness: from 5, a quality of 0, a null popularity and no maintenance: the
\* request carries from and quality and nothing else beyond text and size.
C25_Witness ==
  /\ adCall.fn = "searchNpm"
  /\ adCall.raw = SearchArgs(JsNumber(5), [quality |-> JsNumber(0), popularity |-> JsNull,
                                            maintenance |-> Undefined])
  /\ adPc = "awaiting"
  /\ adReqs = <<"https://registry.npmjs.org/-/v1/search?text=react&size=10&from=5&quality=0">>

(***************************************************************************)
(* More claims about comparePackages, checked under SpecCompare.           *)
(***************************************************************************)
\* The metadata fetch of packages[i] succeeded.
MetaFetched(i) == Trim(packages[i]) # "" /\ task[i].metaErr = Undefined /\ task[i].pc # "meta"

\* C13: in the resolved array, the entry of a package whose metadata fetch
\* succeeded has no `error` and keeps the registry fields; its downloads are
\* undefined exactly when the downloads fetch failed, and a failed GitHub fetch
\* leaves stars, forks and license undefined; the GitHub step is attempted
\* whatever the downloads fetch did, and what either step obtained is kept.
C13_EnrichmentFailuresStayLocal ==
  cpc = "resolved" =>
    \A i \in Indices :
      MetaFetched(i) =>
        /\ "error" \notin results[i].keys
        /\ results[i].error = Undefined
        /\ results[i].name = task[i].meta.name
        /\ results[i].version = task[i].meta.version
        /\ results[i].repository = task[i].meta.repository
        /\ results[i].homepage = task[i].meta.homepage
        /\ task[i].dlOutcome \in {"resolved", "rejected"}
        /\ (task[i].dlOutcome = "rejected") <=> (results[i].downloads = Undefined)
        /\ task[i].dlOutcome = "resolved" => results[i].downloads = JsNumber(1000)
        /\ task[i].ghCalled
        /\ task[i].ghOutcome = "rejected" =>
             results[i].stars = Undefined /\ results[i].forks = Undefined /\ results[i].license = Undefined
        /\ task[i].ghOutcome = "resolved" =>
             /\ results[i].stars = task[i].gh.stars
             /\ results[i].forks = task[i].gh.forks
             /\ results[i].license = task[i].gh.license

\* Witness: one package whose downloads fetch failed and whose GitHub fetch
\* brought its stars, and one whose GitHub fetch failed after its downloads came.
C13_Witness ==
  /\ cpc = "resolved"
  /\ Len(packages) = 2
  /\ task[1].dlOutcome = "rejected"
  /\ task[1].ghOutcome = "resolved"
  /\ results[1].downloads = Undefined
  /\ results[1].stars = JsNumber(5)
  /\ task[2].dlOutcome = "resolved"
  /\ task[2].ghOutcome = "rejected"
  /\ results[2].downloads = JsNumber(1000)
  /\ results[2].stars = Undefined

\* C14: the entry of a package whose computation failed with a value that is
\* not an Error preserves that value: a thrown string is the `error`, and a
\* thrown plain object does not become "[object Object]".
C14_NonErrorPreserved ==
  cpc = "resolved" =>
    \A i \in Indices :
      (task[i].metaErr # Undefined /\ ~InstanceOfError(task[i].metaErr)) =>
        /\ task[i].metaErr.t = "string" => results[i].error = task[i].metaErr
        /\ task[i].metaErr.t = "object" => results[i].error # JsString("[object Object]")

\* C15: each callback issues its requests in the order registry, downloads,
\* GitHub, the registry request once; the GitHub step starts only when the
\* registry metadata has arrived, and is given the repository of that metadata.
C15_RegistryFirstFetchedOnce ==
  \A i \in 1 .. Len(task) :
    /\ \E n \in 0 .. 3 : task[i].reqs = SubSeq(<<"registry", "downloads", "github">>, 1, n)
    /\ Cardinality({n \in 1 .. Len(task[i].reqs) : task[i].reqs[n] = "registry"}) <= 1
    /\ (task[i].ghCalled \/ \E n \in 1 .. Len(task[i].reqs) : task[i].reqs[n] = "github") =>
         /\ MetaFetched(i)
         /\ task[i].meta # NoMeta
         /\ task[i].ghCalled
         /\ task[i].ghArg = task[i].meta.repository

\* Witness: a callback that has issued all three requests, the GitHub one for
\* the repository its registry document named.
C15_Witness ==
  /\ Len(task) >= 1
  /\ task[1].reqs = <<"registry", "downloads", "github">>
  /\ task[1].ghArg = JsString("git+https://github.com/facebook/react.git")
  /\ task[1].meta.repository = task[1].ghArg

(***************************************************************************)
(* Claims about the handlers, checked under SpecHandlers.                  *)
(***************************************************************************)
\* The invocation that produced the payload invocation i answered with.
Producer(i) == inv[i].result.payload.n

\* C26: the entries compare_packages answers with are in the order of the names
\* its caller passed: the comparison it answers with, fetched by this call or
\* taken from the cache, was made of the names in the caller's order.
C26_ComparisonInCallersOrder ==
  \A i \in 1 .. Len(inv) :
    (tool = "compare_packages" /\ inv[i].pc = "done" /\ ~inv[i].result.isError) =>
      inv[Producer(i)].packages = inv[i].call.packages

\* The text that tells what was thrown.
ThrownText(v) == IF v = Undefined THEN "undefined" ELSE v.s

\* C27: a handler whose adapter throws, an Error or any other value, resolves
\* with a result that has isError and a text containing what was thrown; it
\* has made no cacheSet, and the step that catches leaves the cache as it was.
\* No handler ends in any other way than by resolving with a result.
C27_HandlersCatchEverything ==
  /\ [](\A i \in 1 .. Len(inv) :
          /\ inv[i].pc \in {"awaiting", "done"}
          /\ inv[i].pc = "done" => inv[i].result # NoToolResult
          /\ inv[i].threw # NotThrown =>
               /\ inv[i].pc = "done"
               /\ inv[i].result.isError
               /\ Contains(inv[i].result.text, ThrownText(inv[i].threw))
               /\ ~inv[i].wrote
               /\ \A e \in 1 .. Len(cache) : cache[e].val.n # i)
  /\ [][\A i \in 1 .. Len(inv) :
          (inv[i].threw = NotThrown /\ inv'[i].threw # NotThrown) => cache' = cache]_vars

\* Witness: compare_packages met an adapter that threw a plain object and
\* resolved with the error text holding the object's JSON.
C27_Witness ==
  /\ tool = "compare_packages"
  /\ Len(inv) = 2
  /\ inv[1].wrote
  /\ inv[2].threw = JsonObject("{\"code\":1}")
  /\ inv[2].pc = "done"
  /\ inv[2].result = [isError |-> TRUE, payload |-> Undefined,
                      text |-> "compare_packages error: {\"code\":1}"]
  /\ Len(cache) = 1

\* C28: no payload built from a failed upstream fetch is in the cache, and no
\* call is answered from the cache with one.
C28_FailuresNotCached ==
  /\ \A e \in 1 .. Len(cache) : ~inv[cache[e].val.n].degraded
  /\ \A i \in 1 .. Len(inv) :
       (inv[i].pc = "done" /\ Truthy(inv[i].cached)) => ~inv[inv[i].cached.n].degraded

\* C29: two calls have the same cache key only if their upstream requests are
\* the same, and a call answered from the cache is answered with a payload
\* fetched by a call with the same upstream requests.
C29_SameKeySameRequests ==
  /\ \A i, j \in 1 .. Len(inv) :
       inv[i].key = inv[j].key => UpstreamRequests(inv[i].call) = UpstreamRequests(inv[j].call)
  /\ \A i \in 1 .. Len(inv) :
       (inv[i].pc = "done" /\ Truthy(inv[i].cached)) =>
         UpstreamRequests(inv[i].call) = UpstreamRequests(inv[inv[i].cached.n].call)

(***************************************************************************)
(* More claims about httpGet, checked under SpecHttp.                      *)
(***************************************************************************)
\* C18: the n-th wait of a call is 300*n ms long; a wait follows every failed
\* attempt but the final one: while attempt n+1 is in flight n waits have been
\* made, and a call that has thrown after its last attempt made one wait fewer
\* than it made attempts.
C18_LinearBackoffBetweenAttempts ==
  /\ \A n \in 1 .. Len(sleepLog) : sleepLog[n] = 300 * n
  /\ hpc = "sleeping" => Len(sleepLog) = Len(fetchLog)
  /\ hpc \in {"fetching", "returned", "thrown"} => Len(sleepLog) = Len(fetchLog) - 1
  /\ hpc = "thrown" => LastFetch.outcome \in {"rejected", "aborted"}

\* Witness: three attempts failed; the call waited 300 ms, then 600 ms, and
\* threw after the third without waiting again.
C18_Witness ==
  /\ hpc = "thrown"
  /\ Len(fetchLog) = 3
  /\ sleepLog = <<300, 600>>

\* C30: once httpGet has settled, by returning or by throwing, no timeout
\* timer it armed is still pending; and a request is aborted only by the timer
\* armed for its own attempt.
C30_NoTimerOutlivesHttpGet ==
  /\ [](hpc \in {"returned", "thrown"} => timers = {})
  /\ [][(hpc = "fetching" /\ LastFetch'.outcome = "aborted") =>
          timers \ timers' = {Len(fetchLog) - 1}]_vars

(***************************************************************************)
(* Claims about key(), checked under SpecKey.                              *)
(***************************************************************************)
\* C16: calls with the same parts return the same string; key(["a", 1]) and
\* key(["a", 2]) differ; and for two different parts a and b, key([a, b]) and
\* key([b, a]) differ.
C16_KeyPureAndOrderSensitive ==
  \A i, j \in 1 .. Len(keyOut) :
    LET A == keyArgs[keyOut[i].arg]
        B == keyArgs[keyOut[j].arg]
    IN /\ A = B => keyOut[i].str = keyOut[j].str
       /\ (A = <<JsString("a"), JsNumber(1)>> /\ B = <<JsString("a"), JsNumber(2)>>) =>
            keyOut[i].str # keyOut[j].str
       /\ (Len(A) = 2 /\ Len(B) = 2 /\ A[1] # A[2] /\ B = <<A[2], A[1]>>) =>
            keyOut[i].str # keyOut[j].str

\* C17: two part lists that differ only in one position, the number 5 in one
\* and the string "5" in the other, give different keys.
C17_NumberAndStringDoNotCollide ==
  \A i, j \in 1 .. Len(keyOut) :
    LET A == keyArgs[keyOut[i].arg]
        B == keyArgs[keyOut[j].arg]
    IN ( /\ Len(A) = Len(B)
         /\ \E n \in 1 .. Len(A) :
              /\ A[n] = JsNumber(5)
              /\ B[n] = JsString("5")
              /\ \A m \in 1 .. Len(A) : m # n => A[m] = B[m] ) =>
         keyOut[i].str # keyOut[j].str

====
